---- MODULE Spec2Model ----
(***************************************************************************)
(* A model of the reliability core of pforge-runtime:                      *)
(*   - CircuitBreaker (recovery.rs): call / on_success / on_failure, one   *)
(*     step per access to the shared state (RwLock read or write, atomic   *)
(*     load/store/fetch_add), so that concurrent callers interleave as     *)
(*     threads of the multi-threaded runtime do;                           *)
(*   - retry_with_policy, RetryPolicy (timeout.rs);                        *)
(*   - with_timeout (timeout.rs), alone and as the operation of a retry;   *)
(*   - RetryPolicy::backoff_duration with its i32 cast and f64 arithmetic; *)
(*   - MiddlewareChain::execute (middleware.rs), one step per hook call;   *)
(*   - PipelineHandler::execute (handlers/pipeline.rs), one step per step. *)
(* Time is a discrete clock `now`; Instant::now() reads it.                *)
(***************************************************************************)
EXTENDS Integers, Sequences, FiniteSets, TLC

(***************************************************************************)
(* Bounds of the model.                                                    *)
(***************************************************************************)
MaxThreshold == 2
MaxTimeout == 2
MaxTime == 4
NumCallers == 2
MaxConcCalls == 2
MaxAttempts == 3
MaxWait == 2
MaxSegments == 2

Min(a, b) == IF a <= b THEN a ELSE b

VARIABLES
    config,             \* CircuitBreakerConfig
    state,              \* CircuitBreaker.state (RwLock<CircuitState>)
    failure_count,      \* CircuitBreaker.failure_count (AtomicUsize)
    success_count,      \* CircuitBreaker.success_count (AtomicUsize)
    last_failure_time,  \* CircuitBreaker.last_failure_time: <<>> is None, <<t>> is Some(t)
    lftReaders,         \* callers holding a read guard of last_failure_time
    now,                \* the clock
    pc,                 \* position of each caller in call / on_success / on_failure
    loc,                \* locals of each caller
    result,             \* what each caller's last call returned
    hist,               \* history of each caller's current call (observation only)
    ghist,              \* history of the breaker (observation only)
    started,            \* number of calls started by the concurrent callers
    policy,             \* RetryPolicy
    attempt,            \* retry_with_policy: attempt
    last_error,         \* retry_with_policy: last_error
    rpc,                \* position in retry_with_policy
    sleeping,           \* the backoff retry_with_policy is sleeping for
    rresult,            \* what retry_with_policy returned
    log,                \* attempts run and sleeps taken by retry_with_policy, in order
    duration,           \* with_timeout: duration
    fut,                \* with_timeout: the wrapped future
    tpc,                \* position in with_timeout
    tresult,            \* what with_timeout returned
    treport,            \* effects of the future when with_timeout returned
    bo_policy,          \* backoff_duration: self
    bo_attempt,         \* backoff_duration: attempt
    bo_result,          \* backoff_duration: the duration returned, in milliseconds
    middlewares,        \* MiddlewareChain.middlewares
    handler,            \* execute: what the wrapped handler does
    request,            \* execute: request
    response,           \* execute: response
    current_error,      \* execute: current_error
    mpc,                \* position in execute
    mi,                 \* execute: iterations done by the current loop
    mresult,            \* what execute returned
    mlog,               \* the hooks and the handler run by execute, in order
    steps,              \* PipelineHandler.steps
    variables,          \* PipelineHandler::execute: variables
    results,            \* PipelineHandler::execute: results
    pi,                 \* PipelineHandler::execute: steps of the loop done
    ppc,                \* position in PipelineHandler::execute
    presult,            \* what PipelineHandler::execute returned
    plog,               \* the steps skipped and dispatched, in order
    ip_template,        \* interpolate_variables: template
    ip_variables,       \* interpolate_variables: variables
    ip_result,          \* interpolate_variables: the value returned and the template after the call
    handlers,           \* HandlerRegistry.handlers
    rg_log,             \* the calls made on the registry, in order
    server_config,      \* ForgeConfig.tools (McpServer.config)
    vresult,            \* what validate_config returned
    spc,                \* position on the serve path
    total_errors,       \* ErrorTracker.total_errors
    errors_by_type,     \* ErrorTracker.errors_by_type
    prompts,            \* PromptManager.prompts
    pr_result,          \* what the last call on the PromptManager was and returned
    resources,          \* ResourceManager.resources
    rs_result,          \* what the last call on the ResourceManager was, returned and invoked
    backend,            \* which StateManager the store is
    st_store,           \* MemoryStateManager.store / SledStateManager.db
    st_sets,            \* for each key, the last set that no delete followed: its time, value and ttl
    st_result,          \* what the last call on the StateManager was and returned
    request_counts,     \* MetricsCollector.request_counts
    error_counts,       \* MetricsCollector.error_counts
    latency_sums,       \* MetricsCollector.latency_sums
    tm_log,             \* the record_request calls made, in order
    tm_pc,              \* position of each task in record_request or get_error_rate
    tm_loc,             \* the locals of each task
    tm_out,             \* what the last read of the collector returned
    lock,               \* McpServer.registry: the RwLock, its writer and its readers
    reg_pc,             \* position in register_handlers
    reg_i,              \* register_handlers: tools of the loop done, plus one
    dp_pc,              \* position of each dispatcher
    dp_seen,            \* what each dispatcher last found in the registry
    ct_pc,              \* position of each task in CounterHandler::handle
    ct_loc,             \* CounterHandler::handle: input and previous_value of each task
    ct_outputs,         \* the CounterOutputs returned, in order
    ct_started,         \* the invocations of CounterHandler::handle started
    ct_overlap          \* some invocation read a counter that another one was about to write

cbVars == <<config, state, failure_count, success_count, last_failure_time,
            lftReaders, now, pc, loc, result, hist, ghist, started>>

\* the breaker without the clock
cbState == <<config, state, failure_count, success_count, last_failure_time,
             lftReaders, pc, loc, result, hist, ghist, started>>

retryVars == <<policy, attempt, last_error, rpc, sleeping, rresult, log>>

toVars == <<duration, fut, tpc, tresult, treport>>

boVars == <<bo_policy, bo_attempt, bo_result>>

\* the state of the parts other than the breaker, the retry loop and the gate
mwVars == <<middlewares, handler, request, response, current_error, mpc, mi,
            mresult, mlog>>

plVars == <<steps, variables, results, pi, ppc, presult, plog>>

ipVars == <<ip_template, ip_variables, ip_result>>

rgVars == <<handlers, rg_log>>

cfVars == <<server_config, vresult, spc>>

etVars == <<total_errors, errors_by_type>>

prVars == <<prompts, pr_result>>

rsVars == <<resources, rs_result>>

stVars == <<backend, st_store, st_sets, st_result>>

tmVars == <<request_counts, error_counts, latency_sums, tm_log, tm_pc, tm_loc, tm_out>>

lkVars == <<lock, reg_pc, reg_i, dp_pc, dp_seen>>

ctVars == <<ct_pc, ct_loc, ct_outputs, ct_started, ct_overlap>>

\* the managers of the runtime and the handlers of the production server
mgrVars == <<etVars, prVars, rsVars, stVars, tmVars, lkVars, ctVars>>

restVars == <<boVars, mwVars, plVars, ipVars, rgVars, cfVars, mgrVars>>

vars == <<cbVars, retryVars, toVars, restVars>>

Callers == 1..NumCallers
SeqCallers == {1}

CircuitState == {"Closed", "Open", "HalfOpen"}

CircuitBreakerConfig ==
    [failure_threshold : 0..MaxThreshold,
     timeout : 0..MaxTimeout,
     success_threshold : 0..MaxThreshold]

None == <<>>
Some(x) == <<x>>

Ok(v) == [ok |-> TRUE, value |-> v]
Err(kind, msg) == [ok |-> FALSE, kind |-> kind, msg |-> msg]

\* the outcomes of the protected operation passed to call
Outcomes == {Ok(42), Err("Handler", "test error")}

ErrCircuitOpen == Err("Handler", "Circuit breaker is OPEN")

NoResult == [ok |-> FALSE, kind |-> "none", msg |-> ""]

Loc0 == [current_state |-> "Closed", last_failure |-> None, outcome |-> NoResult]

Hist0 == [startState |-> "Closed", startLft |-> None, startOpenedAt |-> 0,
          checkedAt |-> 0, ran |-> FALSE, stateAtOp |-> "Closed",
          failuresAtOp |-> 0, opAt |-> 0]

StreakCap == MaxThreshold + 1

GHist0 == [streak |-> 0, base |-> "Closed", hoSucc |-> 0,
           openedFrom |-> "Closed", openStreak |-> 0, openedAt |-> 0]

\* CircuitBreaker::new
NewBreaker ==
    /\ state = "Closed"
    /\ failure_count = 0
    /\ success_count = 0
    /\ last_failure_time = None


(***************************************************************************)
(* Errors and their messages. A message is the sequence of its characters, *)
(* so that str::contains is computed and not assumed.                      *)
(***************************************************************************)
RECURSIVE Pow(_, _)
Pow(b, n) == IF n = 0 THEN 1 ELSE b * Pow(b, n - 1)

Max(a, b) == IF a >= b THEN a ELSE b

\* str::contains(needle)
Contains(msg, needle) ==
    \E i \in 1..(Len(msg) - Len(needle) + 1) :
        SubSeq(msg, i, i + Len(needle) - 1) = needle

\* the Display prefix of each Error variant (thiserror attributes)
DisplayPrefix(kind) ==
    CASE kind = "ToolNotFound" -> <<"T", "o", "o", "l", " ", "n", "o", "t", " ", "f", "o", "u", "n", "d", ":", " ">>
      [] kind = "Handler" -> <<"H", "a", "n", "d", "l", "e", "r", " ", "e", "r", "r", "o", "r", ":", " ">>
      [] kind = "Http" -> <<"H", "T", "T", "P", " ", "e", "r", "r", "o", "r", ":", " ">>
      [] kind = "Timeout" -> <<"T", "i", "m", "e", "o", "u", "t", " ", "e", "r", "r", "o", "r">>
      [] OTHER -> <<>>

\* Error's Display: the message of a failure
Message(error) == DisplayPrefix(error.kind) \o error.msg

\* the substrings RetryPolicy::is_retryable looks for
RetryableNeedles == {<<"t", "i", "m", "e", "o", "u", "t">>,
                     <<"t", "i", "m", "e", "d", " ", "o", "u", "t">>,
                     <<"c", "o", "n", "n", "e", "c", "t", "i", "o", "n">>,
                     <<"t", "e", "m", "p", "o", "r", "a", "r", "y">>}

\* a classifier that retries every failure
is_retryable_always(error) == TRUE

\* RetryPolicy::is_retryable
is_retryable(error) ==
    IF error.kind = "Handler"
    THEN \/ Contains(error.msg, <<"t", "i", "m", "e", "o", "u", "t">>)
         \/ Contains(error.msg, <<"t", "i", "m", "e", "d", " ", "o", "u", "t">>)
         \/ Contains(error.msg, <<"c", "o", "n", "n", "e", "c", "t", "i", "o", "n">>)
         \/ Contains(error.msg, <<"t", "e", "m", "p", "o", "r", "a", "r", "y">>)
    ELSE FALSE

\* the failures of the operation given to retry_with_policy
RetryErrors ==
    {Err("Handler", <<"t", "i", "m", "e", "o", "u", "t", " ", "e", "r", "r", "o", "r">>),
     Err("Handler", <<"t", "e", "m", "p", "o", "r", "a", "r", "y", " ", "i", "s", "s", "u", "e">>),
     Err("Handler", <<"c", "o", "n", "n", "e", "c", "t", "i", "o", "n", " ", "f", "a", "i", "l", "e", "d">>),
     Err("Handler", <<"f", "a", "t", "a", "l", " ", "e", "r", "r", "o", "r">>),
     Err("Handler", <<"T", "i", "m", "e", "d", " ", "O", "u", "t">>),
     Err("Http", <<"c", "o", "n", "n", "e", "c", "t", "i", "o", "n", " ", "r", "e", "f", "u", "s", "e", "d">>),
     Err("Timeout", <<>>)}

RetryOutcomes == {Ok(42)} \cup RetryErrors

\* Error::Handler("All retry attempts failed")
ErrAllFailed == Err("Handler", <<"A", "l", "l", " ", "r", "e", "t", "r", "y", " ", "a", "t", "t", "e", "m", "p", "t", "s", " ", "f", "a", "i", "l", "e", "d">>)

\* backoff_multiplier as a fraction <<numerator, denominator>>
Multipliers == {<<2, 1>>, <<3, 2>>}

RetryPolicy ==
    [max_attempts : 0..MaxAttempts,
     initial_backoff : {10},
     max_backoff : {15, 50},
     backoff_multiplier : Multipliers,
     use_jitter : BOOLEAN]

\* the policy of the retry tests: 3 attempts, 10 ms, at most 50 ms, x2, no jitter
TestPolicy ==
    [max_attempts |-> 3, initial_backoff |-> 10, max_backoff |-> 50,
     backoff_multiplier |-> <<2, 1>>, use_jitter |-> FALSE]

\* i32::MAX
I32Max == 2147483647

\* a u32 is <<its high bit, its low 31 bits>>
U32(n) == <<0, n>>

U32Max == <<1, I32Max>>

\* `attempt as i32`: the same 32 bits read as two's complement
as_i32(a) == IF a[1] = 0 THEN a[2] ELSE (a[2] - I32Max) - 1

\* An f64 is kept exactly while it is a small fraction num/den; beyond that
\* only its class is kept: "huge" (finite, above every duration of the model),
\* "inf", "small" (in [0, 2^-500]) and "nan".
F64(num, den) == [k |-> "fin", num |-> num, den |-> den]

F64Class(k) == [k |-> k, num |-> 0, den |-> 1]

\* exponents up to which a power is computed exactly
MaxExactExp == 3

\* the least n with m^n above f64::MAX (2^1024 = 1.5^1751 approximately)
F64OverflowExp(m) == IF m = <<2, 1>> THEN 1024 ELSE 1751

\* f64::powi(m, n) for a multiplier m >= 1 given as <<numerator, denominator>>;
\* exact for |n| <= MaxExactExp, by class for |n| >= 1024
powi(m, n) ==
    IF n >= 0 /\ n <= MaxExactExp THEN F64(Pow(m[1], n), Pow(m[2], n))
    ELSE IF n < 0 /\ n >= -MaxExactExp THEN F64(Pow(m[2], -n), Pow(m[1], -n))
    ELSE IF m[1] = m[2] THEN F64(1, 1)
    ELSE IF n > 0
         THEN IF n >= F64OverflowExp(m) THEN F64Class("inf") ELSE F64Class("huge")
         ELSE F64Class("small")

\* (i as f64) * x for a whole number of milliseconds i
f64_mul(i, x) ==
    CASE x.k = "fin" -> F64(i * x.num, x.den)
      [] x.k = "huge" -> IF i = 0 THEN F64(0, 1) ELSE x
      [] x.k = "inf" -> IF i = 0 THEN F64Class("nan") ELSE x
      [] OTHER -> x

\* x.min(m as f64) for a whole number of milliseconds m: f64::min returns the
\* other argument when one is NaN
f64_min(x, m) ==
    CASE x.k = "fin" -> IF x.num <= m * x.den THEN x ELSE F64(m, 1)
      [] x.k = "small" -> IF m = 0 THEN F64(0, 1) ELSE x
      [] OTHER -> F64(m, 1)

\* RetryPolicy::backoff_duration: the durations it can return, in milliseconds
\* (one without jitter; with jitter, capped + r * capped * 0.1 for r in [0, 1))
backoff_duration(pol, a) ==
    LET base_duration == f64_mul(pol.initial_backoff, powi(pol.backoff_multiplier, as_i32(a)))
        capped == f64_min(base_duration, pol.max_backoff)
        lo == IF capped.k = "fin" THEN capped.num \div capped.den ELSE 0
        hi == IF capped.k = "fin"
              THEN Max(lo, ((11 * capped.num + 10 * capped.den - 1) \div (10 * capped.den)) - 1)
              ELSE 0
    IN IF pol.use_jitter THEN lo..hi ELSE {lo}

AttemptEvent(o) == [ev |-> "attempt", out |-> o, d |-> 0]
SleepEvent(d) == [ev |-> "sleep", out |-> NoResult, d |-> d]

\* retry_with_policy before its first attempt
StartRetry ==
    /\ attempt = 0
    /\ last_error = None
    /\ rpc = "loop"
    /\ sleeping = 0
    /\ rresult = NoResult
    /\ log = <<>>

\* Duration's Debug form, for whole milliseconds below one second
RECURSIVE Digits(_)
Digits(n) ==
    LET digit == <<"0", "1", "2", "3", "4", "5", "6", "7", "8", "9">>[(n % 10) + 1]
    IN IF n < 10 THEN <<digit>> ELSE Append(Digits(n \div 10), digit)

DurationDebug(d) == IF d = 0 THEN <<"0", "n", "s">> ELSE Digits(d) \o <<"m", "s">>

\* Error::Handler(format!("Operation timed out after {:?}", duration))
ErrTimedOut(d) == Err("Handler", <<"O", "p", "e", "r", "a", "t", "i", "o", "n", " ", "t", "i", "m", "e", "d", " ", "o", "u", "t", " ", "a", "f", "t", "e", "r", " ">> \o DurationDebug(d))

\* the futures given to with_timeout: MaxSegments sleeps at most, each followed
\* by a step with an effect, then the output
Futures ==
    UNION {[1..n -> 0..MaxWait] : n \in 0..MaxSegments}

NewFuture(waits, t) ==
    [waits |-> waits, idx |-> 1, wake |-> IF Len(waits) >= 1 THEN t + waits[1] ELSE t,
     effects |-> 0, status |-> "pending", output |-> 42, doneAt |-> 0, born |-> t]

\* with_timeout(duration, future) as called
StartTimeout ==
    /\ duration \in 0..MaxTimeout
    /\ \E w \in Futures : fut = NewFuture(w, 0)
    /\ tpc = "waiting"
    /\ tresult = NoResult
    /\ treport = 0

\* the parts of the state a specification does not use
IdleBreaker ==
    /\ config = [failure_threshold |-> MaxThreshold, timeout |-> MaxTimeout,
                 success_threshold |-> MaxThreshold]
    /\ state = "Closed"
    /\ failure_count = 0
    /\ success_count = 0
    /\ last_failure_time = None

MaxRecords == 3

NumRecorders == 2

NumDispatchers == 2

NumCounterTasks == 2

MaxInvocations == 3

IdleRetry ==
    /\ policy = TestPolicy
    /\ attempt = 0
    /\ last_error = None
    /\ rpc = "done"
    /\ sleeping = 0
    /\ rresult = NoResult
    /\ log = <<>>

\* backoff_duration not called yet
NotCalled == -1

IdleTimeout ==
    /\ duration = 0
    /\ fut = NewFuture(<<>>, 0)
    /\ tpc = "done"
    /\ tresult = NoResult
    /\ treport = 0

IdleBackoff ==
    /\ bo_policy = TestPolicy
    /\ bo_attempt = U32(0)
    /\ bo_result = NotCalled

\* execute has not returned
NoResponse == [ok |-> FALSE, kind |-> "none", msg |-> <<>>]

IdleMiddleware ==
    /\ middlewares = <<>>
    /\ handler = "ok"
    /\ request = <<>>
    /\ response = <<>>
    /\ current_error = NoResponse
    /\ mpc = "done"
    /\ mi = 0
    /\ mresult = NoResponse
    /\ mlog = <<>>

\* an empty HashMap
EmptyMap == << >>

IdlePipeline ==
    /\ steps = <<>>
    /\ variables = EmptyMap
    /\ results = <<>>
    /\ pi = 0
    /\ ppc = "done"
    /\ presult = NoResponse
    /\ plog = <<>>

\* serde_json::Value: one record shape per JSON type; an object is the
\* sequence of its <<key, value>> entries
JNull == [t |-> "null"]

JBool(b) == [t |-> "bool", b |-> b]

JNum(n) == [t |-> "num", n |-> n]

JStr(chars) == [t |-> "str", s |-> chars]

JArr(items) == [t |-> "arr", items |-> items]

JObj(fields) == [t |-> "obj", fields |-> fields]

\* interpolate_variables not called yet
NotInterpolated == [value |-> JNull, template |-> JNull, called |-> FALSE]

IdleInterpolate ==
    /\ ip_template = JNull
    /\ ip_variables = EmptyMap
    /\ ip_result = NotInterpolated

\* HandlerRegistry::new
IdleRegistry ==
    /\ handlers = EmptyMap
    /\ rg_log = <<>>

NotValidated == [ok |-> FALSE, kind |-> "none", msg |-> <<>>]

IdleConfig ==
    /\ server_config = <<>>
    /\ vresult = NotValidated
    /\ spc = "off"

\* ErrorTracker::new
IdleErrorTracker ==
    /\ total_errors = 0
    /\ errors_by_type = EmptyMap

\* PromptManager::new
IdlePrompts ==
    /\ prompts = EmptyMap
    /\ pr_result = [op |-> "none"]

\* ResourceManager::new
IdleResources ==
    /\ resources = <<>>
    /\ rs_result = [op |-> "none"]

\* MemoryStateManager::new
IdleState ==
    /\ backend = "memory"
    /\ st_store = EmptyMap
    /\ st_sets = EmptyMap
    /\ st_result = [op |-> "none"]

\* MetricsCollector::new, no task inside a call
IdleMetrics ==
    /\ request_counts = EmptyMap
    /\ error_counts = EmptyMap
    /\ latency_sums = EmptyMap
    /\ tm_log = <<>>
    /\ tm_pc = [p \in 0..NumRecorders |-> "idle"]
    /\ tm_loc = [p \in 0..NumRecorders |-> [tool |-> "", success |-> TRUE, micros |-> 0, total |-> 0]]
    /\ tm_out = [op |-> "none"]

\* McpServer::new: the lock is free, register_handlers not called
IdleLock ==
    /\ lock = [writer |-> FALSE, readers |-> {}]
    /\ reg_pc = "start"
    /\ reg_i = 1
    /\ dp_pc = [d \in 1..NumDispatchers |-> "idle"]
    /\ dp_seen = [d \in 1..NumDispatchers |-> [op |-> "none"]]

\* CounterHandler::new, no invocation made
IdleCounter ==
    /\ ct_pc = [p \in 1..NumCounterTasks |-> "idle"]
    /\ ct_loc = [p \in 1..NumCounterTasks |-> [name |-> "", increment |-> 0, previous_value |-> 0]]
    /\ ct_outputs = <<>>
    /\ ct_started = 0
    /\ ct_overlap = FALSE

IdleManagers ==
    /\ IdleCounter
    /\ IdleLock
    /\ IdleMetrics
    /\ IdleState
    /\ IdleResources
    /\ IdlePrompts
    /\ IdleErrorTracker

IdleRest ==
    /\ IdleManagers
    /\ IdleBackoff
    /\ IdleMiddleware
    /\ IdlePipeline
    /\ IdleInterpolate
    /\ IdleRegistry
    /\ IdleConfig

\* the breaker as constructed, no call made yet
InitCallers ==
    /\ lftReaders = {}
    /\ now = 0
    /\ pc = [p \in Callers |-> "idle"]
    /\ loc = [p \in Callers |-> Loc0]
    /\ result = [p \in Callers |-> NoResult]
    /\ hist = [p \in Callers |-> Hist0]
    /\ ghist = GHist0
    /\ started = 0

InitBreaker ==
    /\ config \in CircuitBreakerConfig
    /\ NewBreaker
    /\ InitCallers
    /\ IdleRetry
    /\ IdleTimeout
    /\ IdleRest

\* configurations with thresholds and cooldown of at least 1
PositiveConfigs ==
    {c \in CircuitBreakerConfig :
        c.failure_threshold >= 1 /\ c.success_threshold >= 1 /\ c.timeout >= 1}

InitBreakerConc ==
    /\ config \in PositiveConfigs
    /\ NewBreaker
    /\ InitCallers
    /\ IdleRetry
    /\ IdleTimeout
    /\ IdleRest

\* last_failure.elapsed() >= self.config.timeout
CooldownElapsed(last_failure) == now - last_failure >= config.timeout

\* a breaker that opens one failure late
ShouldOpenLate(failures) == failures > config.failure_threshold

\* failures >= self.config.failure_threshold
ShouldOpen(failures) == failures >= config.failure_threshold

\* a breaker that closes one success late
ShouldCloseLate(successes) == successes > config.success_threshold

\* successes >= self.config.success_threshold
ShouldClose(successes) == successes >= config.success_threshold

Goto(p, l) == pc' = [pc EXCEPT ![p] = l]

\* the call returns r to its caller
Return(p, r) ==
    /\ pc' = [pc EXCEPT ![p] = "ret"]
    /\ result' = [result EXCEPT ![p] = r]
    /\ loc' = [loc EXCEPT ![p] = Loc0]

\* what call returns after on_success / on_failure: the operation's outcome
ReturnOutcome(p) == Return(p, loc[p].outcome)

\* call: let current_state = self.get_state().await
call_get_state(p) ==
    /\ pc[p] = "idle"
    /\ loc' = [loc EXCEPT ![p].current_state = state]
    /\ hist' = [hist EXCEPT ![p] =
                  [Hist0 EXCEPT !.startState = state, !.startLft = last_failure_time,
                                !.startOpenedAt = ghist.openedAt, !.checkedAt = now]]
    /\ Goto(p, IF state = "Open" THEN "check" ELSE "op")
    /\ UNCHANGED <<config, state, failure_count, success_count, last_failure_time,
                   lftReaders, now, result, ghist>>

\* call: if let Some(last_failure) = *self.last_failure_time.read().await,
\* and the elapsed() test; the read guard lives to the end of the if-let
call_check_timeout(p) ==
    /\ pc[p] = "check"
    /\ hist' = [hist EXCEPT ![p].checkedAt = now]
    /\ IF last_failure_time = None
       THEN /\ Goto(p, "op")
            /\ loc' = [loc EXCEPT ![p].last_failure = None]
            /\ UNCHANGED <<lftReaders, result>>
       ELSE IF CooldownElapsed(last_failure_time[1])
            THEN /\ Goto(p, "to_half_open")
                 /\ loc' = [loc EXCEPT ![p].last_failure = last_failure_time]
                 /\ lftReaders' = lftReaders \cup {p}
                 /\ UNCHANGED result
            ELSE /\ Return(p, ErrCircuitOpen)
                 /\ UNCHANGED lftReaders
    /\ UNCHANGED <<config, state, failure_count, success_count, last_failure_time,
                   now, ghist>>

\* call: *self.state.write().await = CircuitState::HalfOpen
call_to_half_open(p) ==
    /\ pc[p] = "to_half_open"
    /\ state' = "HalfOpen"
    /\ ghist' = [ghist EXCEPT !.hoSucc = 0]
    /\ Goto(p, "reset_success")
    /\ UNCHANGED <<config, failure_count, success_count, last_failure_time,
                   lftReaders, now, loc, result, hist>>

\* call: self.success_count.store(0); the if-let ends and drops the read guard
call_reset_success(p) ==
    /\ pc[p] = "reset_success"
    /\ success_count' = 0
    /\ lftReaders' = lftReaders \ {p}
    /\ Goto(p, "op")
    /\ UNCHANGED <<config, state, failure_count, last_failure_time, now, loc,
                   result, hist, ghist>>

\* call: match operation().await
call_operation(p) ==
    /\ pc[p] = "op"
    /\ \E o \in Outcomes :
         /\ loc' = [loc EXCEPT ![p].outcome = o]
         /\ Goto(p, IF o.ok THEN "on_success" ELSE "on_failure")
         /\ LET ho == IF o.ok /\ state = "HalfOpen"
                      THEN Min(ghist.hoSucc + 1, StreakCap) ELSE ghist.hoSucc
            IN /\ hist' = [hist EXCEPT ![p].ran = TRUE, ![p].stateAtOp = state,
                                       ![p].failuresAtOp = failure_count,
                                       ![p].opAt = now]
               /\ ghist' = [ghist EXCEPT
                              !.streak = IF o.ok THEN 0 ELSE Min(@ + 1, StreakCap),
                              !.hoSucc = ho]
    /\ UNCHANGED <<config, state, failure_count, success_count, last_failure_time,
                   lftReaders, now, result>>

\* on_success: let state = self.get_state().await; match state
on_success_get_state(p) ==
    /\ pc[p] = "on_success"
    /\ IF state = "HalfOpen" THEN Goto(p, "s_half_open") /\ UNCHANGED <<result, loc, ghist>>
       ELSE IF state = "Closed" THEN Goto(p, "s_closed") /\ UNCHANGED <<result, loc, ghist>>
       ELSE /\ ReturnOutcome(p)
            /\ ghist' = [ghist EXCEPT !.base = state]
    /\ UNCHANGED <<config, state, failure_count, success_count, last_failure_time,
                   lftReaders, now, hist>>

\* on_success, HalfOpen: successes = success_count.fetch_add(1) + 1 and the test
on_success_half_open(p) ==
    /\ pc[p] = "s_half_open"
    /\ success_count' = success_count + 1
    /\ IF ShouldClose(success_count + 1)
       THEN Goto(p, "s_close") /\ UNCHANGED <<result, loc, ghist>>
       ELSE /\ ReturnOutcome(p)
            /\ ghist' = [ghist EXCEPT !.base = state]
    /\ UNCHANGED <<config, state, failure_count, last_failure_time, lftReaders, now,
                   hist>>

\* on_success, HalfOpen: *self.state.write().await = CircuitState::Closed
on_success_close(p) ==
    /\ pc[p] = "s_close"
    /\ state' = "Closed"
    /\ Goto(p, "s_close_failures")
    /\ UNCHANGED <<config, failure_count, success_count, last_failure_time,
                   lftReaders, now, loc, result, hist, ghist>>

\* on_success, HalfOpen: self.failure_count.store(0)
on_success_close_failures(p) ==
    /\ pc[p] = "s_close_failures"
    /\ failure_count' = 0
    /\ Goto(p, "s_close_successes")
    /\ UNCHANGED <<config, state, success_count, last_failure_time, lftReaders, now,
                   loc, result, hist, ghist>>

\* on_success, HalfOpen: self.success_count.store(0)
on_success_close_successes(p) ==
    /\ pc[p] = "s_close_successes"
    /\ success_count' = 0
    /\ ReturnOutcome(p)
    /\ ghist' = [ghist EXCEPT !.base = state]
    /\ UNCHANGED <<config, state, failure_count, last_failure_time, lftReaders, now,
                   hist>>

\* a success in Closed that keeps the failure count
on_success_closed_keep(p) ==
    /\ pc[p] = "s_closed"
    /\ ReturnOutcome(p)
    /\ ghist' = [ghist EXCEPT !.base = state]
    /\ UNCHANGED <<config, state, failure_count, success_count, last_failure_time,
                   lftReaders, now, hist>>

\* on_success, Closed: self.failure_count.store(0)
on_success_closed(p) ==
    /\ pc[p] = "s_closed"
    /\ failure_count' = 0
    /\ ReturnOutcome(p)
    /\ ghist' = [ghist EXCEPT !.base = state]
    /\ UNCHANGED <<config, state, success_count, last_failure_time, lftReaders, now,
                   hist>>

\* on_failure: let state = self.get_state().await; match state
on_failure_get_state(p) ==
    /\ pc[p] = "on_failure"
    /\ IF state = "Closed" THEN Goto(p, "f_closed") /\ UNCHANGED <<result, loc>>
       ELSE IF state = "HalfOpen" THEN Goto(p, "f_half_open") /\ UNCHANGED <<result, loc>>
       ELSE ReturnOutcome(p)
    /\ UNCHANGED <<config, state, failure_count, success_count, last_failure_time,
                   lftReaders, now, hist, ghist>>

\* on_failure, Closed: failures = failure_count.fetch_add(1) + 1 and the test
on_failure_closed(p) ==
    /\ pc[p] = "f_closed"
    /\ failure_count' = failure_count + 1
    /\ IF ShouldOpen(failure_count + 1)
       THEN Goto(p, "f_open") /\ UNCHANGED <<result, loc>>
       ELSE ReturnOutcome(p)
    /\ UNCHANGED <<config, state, success_count, last_failure_time, lftReaders, now,
                   hist, ghist>>

\* on_failure, Closed: *self.state.write().await = CircuitState::Open
on_failure_open(p) ==
    /\ pc[p] = "f_open"
    /\ state' = "Open"
    /\ ghist' = [ghist EXCEPT !.openedFrom = "Closed", !.openStreak = ghist.streak,
                              !.openedAt = now]
    /\ Goto(p, "f_stamp")
    /\ UNCHANGED <<config, failure_count, success_count, last_failure_time,
                   lftReaders, now, loc, result, hist>>

\* on_failure, Closed: *self.last_failure_time.write().await = Some(Instant::now())
on_failure_stamp(p) ==
    /\ pc[p] = "f_stamp"
    /\ lftReaders = {}
    /\ last_failure_time' = Some(now)
    /\ ReturnOutcome(p)
    /\ UNCHANGED <<config, state, failure_count, success_count, lftReaders, now,
                   hist, ghist>>

\* on_failure, HalfOpen: *self.state.write().await = CircuitState::Open
on_failure_reopen(p) ==
    /\ pc[p] = "f_half_open"
    /\ state' = "Open"
    /\ ghist' = [ghist EXCEPT !.openedFrom = "HalfOpen", !.openStreak = ghist.streak,
                              !.openedAt = now]
    /\ Goto(p, "f_restamp")
    /\ UNCHANGED <<config, failure_count, success_count, last_failure_time,
                   lftReaders, now, loc, result, hist>>

\* a reopening that keeps the old opening timestamp
on_failure_restamp_stale(p) ==
    /\ pc[p] = "f_restamp"
    /\ lftReaders = {}
    /\ Goto(p, "f_set_count")
    /\ UNCHANGED <<config, state, failure_count, success_count, last_failure_time,
                   lftReaders, now, loc, result, hist, ghist>>

\* on_failure, HalfOpen: *self.last_failure_time.write().await = Some(Instant::now())
on_failure_restamp(p) ==
    /\ pc[p] = "f_restamp"
    /\ lftReaders = {}
    /\ last_failure_time' = Some(now)
    /\ Goto(p, "f_set_count")
    /\ UNCHANGED <<config, state, failure_count, success_count, lftReaders, now,
                   loc, result, hist, ghist>>

\* on_failure, HalfOpen: self.failure_count.store(self.config.failure_threshold)
on_failure_set_count(p) ==
    /\ pc[p] = "f_set_count"
    /\ failure_count' = config.failure_threshold
    /\ ReturnOutcome(p)
    /\ UNCHANGED <<config, state, success_count, last_failure_time, lftReaders, now,
                   hist, ghist>>

\* the caller has its result; its next call starts afresh
call_return(p) ==
    /\ pc[p] = "ret"
    /\ pc' = [pc EXCEPT ![p] = "idle"]
    /\ result' = [result EXCEPT ![p] = NoResult]
    /\ hist' = [hist EXCEPT ![p] = Hist0]
    /\ UNCHANGED <<config, state, failure_count, success_count, last_failure_time,
                   lftReaders, now, loc, ghist>>

\* time passes
Tick ==
    /\ now < MaxTime
    /\ now' = now + 1
    /\ UNCHANGED <<config, state, failure_count, success_count, last_failure_time,
                   lftReaders, pc, loc, result, hist, ghist>>

\* one step of caller p in CircuitBreaker::call after its first
call_steps(p) ==
    \/ call_check_timeout(p)
    \/ call_to_half_open(p)
    \/ call_reset_success(p)
    \/ call_operation(p)
    \/ on_success_get_state(p)
    \/ on_success_half_open(p)
    \/ on_success_close(p)
    \/ on_success_close_failures(p)
    \/ on_success_close_successes(p)
    \/ on_success_closed(p)
    \/ on_failure_get_state(p)
    \/ on_failure_closed(p)
    \/ on_failure_open(p)
    \/ on_failure_stamp(p)
    \/ on_failure_reopen(p)
    \/ on_failure_restamp(p)
    \/ on_failure_set_count(p)
    \/ call_return(p)

\* a single caller: calls follow one another
NextBreakerSeq ==
    /\ \/ Tick /\ UNCHANGED started
       \/ \E p \in SeqCallers : (call_get_state(p) \/ call_steps(p)) /\ UNCHANGED started
    /\ UNCHANGED <<retryVars, toVars, restVars>>

\* concurrent callers, MaxConcCalls calls in all
NextBreaker ==
    /\ \/ Tick /\ UNCHANGED started
       \/ \E p \in Callers :
            \/ started < MaxConcCalls /\ started' = started + 1 /\ call_get_state(p)
            \/ call_steps(p) /\ UNCHANGED started
    /\ UNCHANGED <<retryVars, toVars, restVars>>

SpecBreakerSeq == InitBreaker /\ [][NextBreakerSeq]_vars

SpecBreaker == InitBreakerConc /\ [][NextBreaker]_vars

\* a breaker that opened at time 0 after failure_threshold failures, admitted
\* a call once the cooldown had elapsed, and counted fewer successes than
\* success_threshold since: HalfOpen, no caller inside call; the histories
\* start here
InitBreakerHalfOpen ==
    /\ config \in {c \in PositiveConfigs : c.success_threshold >= 2}
    /\ state = "HalfOpen"
    /\ failure_count = config.failure_threshold
    /\ success_count \in 1..(config.success_threshold - 1)
    /\ last_failure_time = Some(0)
    /\ lftReaders = {}
    /\ now = config.timeout
    /\ pc = [p \in Callers |-> "idle"]
    /\ loc = [p \in Callers |-> Loc0]
    /\ result = [p \in Callers |-> NoResult]
    /\ hist = [p \in Callers |-> Hist0]
    /\ ghist = GHist0
    /\ started = 0
    /\ IdleRetry
    /\ IdleTimeout
    /\ IdleRest

SpecBreakerHalfOpen == InitBreakerHalfOpen /\ [][NextBreaker]_vars

(***************************************************************************)
(* retry_with_policy                                                       *)
(***************************************************************************)
\* a loop that stops one attempt early
LoopContinuesEarly == attempt + 1 < policy.max_attempts

\* retry_with_policy: while attempt < policy.max_attempts
LoopContinues == attempt < policy.max_attempts

\* a delay after the last attempt too
ShouldSleepAlways(att, max_attempts) == att <= max_attempts

\* apply_backoff_delay: if attempt < max_attempts
ShouldSleep(att, max_attempts) == att < max_attempts

\* apply_backoff_delay: policy.backoff_duration(attempt - 1)
BackoffIndex(att) == att - 1

\* handle_retry_result: Some(Err(error)) when the error is not retryable,
\* otherwise None with last_error and attempt updated
handle_retry_result(error) ==
    IF ~is_retryable(error)
    THEN [returns |-> TRUE, result |-> error, attempt |-> attempt,
          last_error |-> last_error]
    ELSE [returns |-> FALSE, result |-> NoResult, attempt |-> attempt + 1,
          last_error |-> Some(error)]

\* the body of the loop once operation().await has given o: the result is
\* returned, or recorded and followed by the backoff delay
retry_result(o) ==
    IF o.ok
    THEN /\ rresult' = o
         /\ rpc' = "done"
         /\ log' = Append(log, AttemptEvent(o))
         /\ UNCHANGED <<attempt, last_error, sleeping>>
    ELSE LET h == handle_retry_result(o)
         IN IF h.returns
            THEN /\ rresult' = h.result
                 /\ rpc' = "done"
                 /\ log' = Append(log, AttemptEvent(o))
                 /\ UNCHANGED <<attempt, last_error, sleeping>>
            ELSE /\ attempt' = h.attempt
                 /\ last_error' = h.last_error
                 /\ UNCHANGED rresult
                 /\ IF ShouldSleep(h.attempt, policy.max_attempts)
                    THEN \E d \in backoff_duration(policy, U32(BackoffIndex(h.attempt))) :
                           /\ sleeping' = d
                           /\ rpc' = "sleep"
                           /\ log' = log \o <<AttemptEvent(o), SleepEvent(d)>>
                    ELSE /\ log' = Append(log, AttemptEvent(o))
                         /\ rpc' = "loop"
                         /\ UNCHANGED sleeping

\* one turn of the loop: the operation runs and gives any of its outcomes
retry_attempt ==
    /\ rpc = "loop"
    /\ LoopContinues
    /\ \E o \in RetryOutcomes : retry_result(o)
    /\ UNCHANGED <<policy, now>>

\* apply_backoff_delay: tokio::time::sleep(backoff) is over
retry_wake ==
    /\ rpc = "sleep"
    /\ now' = now + sleeping
    /\ sleeping' = 0
    /\ rpc' = "loop"
    /\ UNCHANGED <<policy, attempt, last_error, rresult, log>>

\* retry_with_policy: the loop is left, Err(last_error or "All retry attempts failed")
retry_exhausted ==
    /\ rpc = "loop"
    /\ ~LoopContinues
    /\ rresult' = IF last_error = None THEN ErrAllFailed ELSE last_error[1]
    /\ rpc' = "done"
    /\ UNCHANGED <<policy, attempt, last_error, sleeping, log, now>>

InitRetry ==
    /\ policy \in RetryPolicy
    /\ StartRetry
    /\ now = 0
    /\ IdleBreaker
    /\ InitCallers
    /\ IdleTimeout
    /\ IdleRest

NextRetry ==
    /\ \/ retry_attempt
       \/ retry_wake
       \/ retry_exhausted
    /\ UNCHANGED <<cbState, toVars, restVars>>

SpecRetry == InitRetry /\ [][NextRetry]_vars

(***************************************************************************)
(* with_timeout                                                            *)
(***************************************************************************)
\* Future::poll of the wrapped future at time t: every sleep that is over is
\* followed by a step of the future; it is ready after its last step
RECURSIVE PollFuture(_, _)
PollFuture(f, t) ==
    IF f.idx > Len(f.waits)
    THEN [f EXCEPT !.status = "ready", !.doneAt = t]
    ELSE IF t >= f.wake
         THEN PollFuture([f EXCEPT !.idx = @ + 1, !.effects = @ + 1,
                                   !.wake = IF f.idx + 1 <= Len(f.waits)
                                            THEN t + f.waits[f.idx + 1] ELSE t], t)
         ELSE f

\* a deadline counted from the start of the run, not from the call
DeadlineStale == duration

\* timeout(duration, future): the delay ends `duration` after the call, which
\* is when the future is created
Deadline == fut.born + duration

\* tokio's Timeout polls the wrapped future first: Ready(v) is returned as Ok(v)
poll_future ==
    /\ fut.status = "pending"
    /\ now >= fut.wake
    /\ fut' = PollFuture(fut, now)
    /\ IF tpc = "waiting" /\ fut'.status = "ready"
       THEN /\ tresult' = Ok(fut'.output)
            /\ tpc' = "done"
            /\ treport' = fut'.effects
       ELSE UNCHANGED <<tresult, tpc, treport>>
    /\ UNCHANGED <<duration, now>>

\* a gate that reports the expiration and lets the future run on
with_timeout_expire_detached ==
    /\ tpc = "waiting"
    /\ fut.status = "pending"
    /\ now < fut.wake
    /\ now >= Deadline
    /\ tresult' = ErrTimedOut(duration)
    /\ tpc' = "done"
    /\ treport' = fut.effects
    /\ UNCHANGED <<duration, now, fut>>

\* the wrapped future is pending and the delay has elapsed: Err(Elapsed) is
\* mapped to Error::Handler("Operation timed out after ..."), the future is dropped
with_timeout_expire ==
    /\ tpc = "waiting"
    /\ fut.status = "pending"
    /\ now < fut.wake
    /\ now >= Deadline
    /\ tresult' = ErrTimedOut(duration)
    /\ tpc' = "done"
    /\ treport' = fut.effects
    /\ fut' = [fut EXCEPT !.status = "dropped"]
    /\ UNCHANGED <<duration, now>>

InitTimeout ==
    /\ StartTimeout
    /\ now = 0
    /\ IdleBreaker
    /\ InitCallers
    /\ IdleRetry
    /\ IdleRest

NextTimeout ==
    \/ Tick /\ UNCHANGED <<started, retryVars, toVars, restVars>>
    \/ (poll_future \/ with_timeout_expire) /\ UNCHANGED <<cbState, retryVars, restVars>>

SpecTimeout == InitTimeout /\ [][NextTimeout]_vars

(***************************************************************************)
(* retry_with_policy whose operation is with_timeout(duration, future)     *)
(***************************************************************************)
\* operation() is called: with_timeout is given a new future and a duration
attempt_start ==
    /\ rpc = "loop"
    /\ LoopContinues
    /\ rpc' = "op"
    /\ \E d \in 0..MaxTimeout, w \in Futures :
          /\ duration' = d
          /\ fut' = NewFuture(w, now)
    /\ tpc' = "waiting"
    /\ tresult' = NoResult
    /\ treport' = 0
    /\ UNCHANGED <<policy, attempt, last_error, sleeping, rresult, log, now>>

\* time passes while the attempt is pending
attempt_wait ==
    /\ rpc = "op"
    /\ tpc = "waiting"
    /\ now - fut.born < MaxTimeout
    /\ now' = now + 1
    /\ UNCHANGED <<retryVars, toVars>>

\* operation().await has given the result of with_timeout
attempt_end ==
    /\ rpc = "op"
    /\ tpc = "done"
    /\ retry_result(tresult)
    /\ UNCHANGED <<policy, now, toVars>>

NextRetryTimeout ==
    /\ \/ attempt_start
       \/ attempt_wait
       \/ rpc = "op" /\ poll_future /\ UNCHANGED retryVars
       \/ rpc = "op" /\ with_timeout_expire /\ UNCHANGED retryVars
       \/ attempt_end
       \/ retry_wake /\ UNCHANGED toVars
       \/ retry_exhausted /\ UNCHANGED toVars
    /\ UNCHANGED <<cbState, restVars>>

SpecRetryTimeout == InitRetry /\ [][NextRetryTimeout]_vars

(***************************************************************************)
(* RetryPolicy::backoff_duration as a function of the policy and attempt   *)
(***************************************************************************)
\* the attempt indices given to backoff_duration: the first ones, indices
\* around the overflow of f64, and the largest values of a u32
AttemptIndices ==
    {U32(n) : n \in 0..MaxExactExp} \cup {U32(1024), U32(I32Max), <<1, 0>>, U32Max}

BackoffPolicies ==
    [max_attempts : {3},
     initial_backoff : {0, 10},
     max_backoff : {0, 15, 50},
     backoff_multiplier : {<<1, 1>>} \cup Multipliers,
     use_jitter : BOOLEAN]

backoff_call ==
    /\ \E a \in AttemptIndices :
          /\ bo_attempt' = a
          /\ bo_result' \in backoff_duration(bo_policy, a)
    /\ UNCHANGED bo_policy

InitBackoff ==
    /\ IdleManagers
    /\ bo_policy \in BackoffPolicies
    /\ bo_attempt = U32(0)
    /\ bo_result = NotCalled
    /\ IdleBreaker
    /\ InitCallers
    /\ IdleRetry
    /\ IdleTimeout
    /\ IdleMiddleware
    /\ IdlePipeline
    /\ IdleInterpolate
    /\ IdleRegistry
    /\ IdleConfig

NextBackoff ==
    /\ backoff_call
    /\ UNCHANGED <<cbVars, retryVars, toVars, mwVars, plVars, ipVars, rgVars, cfVars, mgrVars>>

SpecBackoff == InitBackoff /\ [][NextBackoff]_vars

(***************************************************************************)
(* MiddlewareChain::execute (middleware.rs)                                *)
(* A JSON value is the sequence of the marks left on it; a mark is a       *)
(* string.                                                                 *)
(***************************************************************************)
MaxChain == 2

\* what a Middleware's hooks do. before and after: return the value as it is
\* (the default), insert a mark (TestMiddleware) or fail
\* (ValidationMiddleware). on_error: re-raise the error (the default),
\* re-raise another error, or return a response (RecoveryMiddleware of the
\* tests).
Middleware ==
    [before : {"pass", "mark", "fail"},
     after : {"pass", "mark", "fail"},
     on_error : {"reraise", "transform", "recover"}]

MiddlewareChains == UNION {[1..n -> Middleware] : n \in 0..MaxChain}

Tag(i) == ToString(i)

\* Middleware::before of the i-th middleware
before(i, req) ==
    CASE middlewares[i].before = "pass" -> Ok(req)
      [] middlewares[i].before = "mark" -> Ok(Append(req, Tag(i)))
      [] OTHER -> Err("Handler", <<"before", Tag(i)>>)

\* Middleware::after of the i-th middleware
after(i, req, resp) ==
    CASE middlewares[i].after = "pass" -> Ok(resp)
      [] middlewares[i].after = "mark" -> Ok(Append(resp, Tag(i)))
      [] OTHER -> Err("Handler", <<"after", Tag(i)>>)

\* Middleware::on_error of the i-th middleware
on_error(i, req, error) ==
    CASE middlewares[i].on_error = "reraise" -> error
      [] middlewares[i].on_error = "transform" -> Err(error.kind, Append(error.msg, Tag(i)))
      [] OTHER -> Ok(<<"recovered", Tag(i)>>)

\* handler(request.clone()).await
run_handler(req) ==
    IF handler = "ok" THEN Ok(Append(req, "handler")) ELSE Err("Handler", Append(req, "failed"))

HookEvent(hook, i, req, arg, out) ==
    [hook |-> hook, mw |-> i, req |-> req, arg |-> arg, out |-> out]

\* an order that is the insertion order
FwdIndex(k) == k

\* self.middlewares.iter().rev(): the middleware of the k-th iteration
RevIndex(k) == Len(middlewares) + 1 - k

\* a before loop whose failure is handed to the on_error hooks
mw_before_to_on_error ==
    /\ mpc = "before"
    /\ mi < Len(middlewares)
    /\ LET i == mi + 1
           r == before(i, request)
       IN /\ mlog' = Append(mlog, HookEvent("before", i, request, request, r))
          /\ IF r.ok
             THEN /\ request' = r.value
                  /\ mi' = mi + 1
                  /\ UNCHANGED <<mpc, current_error>>
             ELSE /\ current_error' = r
                  /\ mpc' = "on_error"
                  /\ mi' = 0
                  /\ UNCHANGED request
    /\ UNCHANGED <<middlewares, handler, response, mresult>>

\* one iteration of the before loop; `?` returns the failure of the hook
mw_before ==
    /\ mpc = "before"
    /\ mi < Len(middlewares)
    /\ LET i == mi + 1
           r == before(i, request)
       IN /\ mlog' = Append(mlog, HookEvent("before", i, request, request, r))
          /\ IF r.ok
             THEN /\ request' = r.value
                  /\ mi' = mi + 1
                  /\ UNCHANGED <<mpc, mresult>>
             ELSE /\ mresult' = r
                  /\ mpc' = "done"
                  /\ UNCHANGED <<request, mi>>
    /\ UNCHANGED <<middlewares, handler, response, current_error>>

\* the before loop is over: the handler runs on a clone of the request
mw_handler ==
    /\ mpc = "before"
    /\ mi = Len(middlewares)
    /\ LET r == run_handler(request)
       IN /\ mlog' = Append(mlog, HookEvent("handler", 0, request, request, r))
          /\ mi' = 0
          /\ IF r.ok
             THEN /\ response' = r.value
                  /\ mpc' = "after"
                  /\ UNCHANGED current_error
             ELSE /\ current_error' = r
                  /\ mpc' = "on_error"
                  /\ UNCHANGED response
    /\ UNCHANGED <<middlewares, handler, request, mresult>>

\* one iteration of the after loop; `?` returns the failure of the hook
mw_after ==
    /\ mpc = "after"
    /\ mi < Len(middlewares)
    /\ LET i == RevIndex(mi + 1)
           r == after(i, request, response)
       IN /\ mlog' = Append(mlog, HookEvent("after", i, request, response, r))
          /\ IF r.ok
             THEN /\ response' = r.value
                  /\ mi' = mi + 1
                  /\ UNCHANGED <<mpc, mresult>>
             ELSE /\ mresult' = r
                  /\ mpc' = "done"
                  /\ UNCHANGED <<response, mi>>
    /\ UNCHANGED <<middlewares, handler, request, current_error>>

\* the after loop is over: Ok(response)
mw_after_done ==
    /\ mpc = "after"
    /\ mi = Len(middlewares)
    /\ mresult' = Ok(response)
    /\ mpc' = "done"
    /\ UNCHANGED <<middlewares, handler, request, response, current_error, mi, mlog>>

\* an on_error loop that goes on after a hook has returned a response
mw_on_error_no_return ==
    /\ mpc = "on_error"
    /\ mi < Len(middlewares)
    /\ LET i == RevIndex(mi + 1)
           r == on_error(i, request, current_error)
       IN /\ mlog' = Append(mlog, HookEvent("on_error", i, request, current_error, r))
          /\ mi' = mi + 1
          /\ IF r.ok
             THEN /\ mresult' = r
                  /\ UNCHANGED <<mpc, current_error>>
             ELSE /\ current_error' = r
                  /\ UNCHANGED <<mpc, mresult>>
    /\ UNCHANGED <<middlewares, handler, request, response>>

\* one iteration of the on_error loop: a response is returned, an error
\* becomes current_error
mw_on_error ==
    /\ mpc = "on_error"
    /\ mi < Len(middlewares)
    /\ LET i == RevIndex(mi + 1)
           r == on_error(i, request, current_error)
       IN /\ mlog' = Append(mlog, HookEvent("on_error", i, request, current_error, r))
          /\ IF r.ok
             THEN /\ mresult' = r
                  /\ mpc' = "done"
                  /\ UNCHANGED <<current_error, mi>>
             ELSE /\ current_error' = r
                  /\ mi' = mi + 1
                  /\ UNCHANGED <<mpc, mresult>>
    /\ UNCHANGED <<middlewares, handler, request, response>>

\* the on_error loop is over: Err(current_error)
mw_on_error_done ==
    /\ mpc = "on_error"
    /\ mi = Len(middlewares)
    /\ mresult' = current_error
    /\ mpc' = "done"
    /\ UNCHANGED <<middlewares, handler, request, response, current_error, mi, mlog>>

\* chain.execute(request, handler) is called
InitMiddleware ==
    /\ IdleManagers
    /\ middlewares \in MiddlewareChains
    /\ handler \in {"ok", "fail"}
    /\ request = <<>>
    /\ response = <<>>
    /\ current_error = NoResponse
    /\ mpc = "before"
    /\ mi = 0
    /\ mresult = NoResponse
    /\ mlog = <<>>
    /\ IdleBreaker
    /\ InitCallers
    /\ IdleRetry
    /\ IdleTimeout
    /\ IdleBackoff
    /\ IdlePipeline
    /\ IdleInterpolate
    /\ IdleRegistry
    /\ IdleConfig

NextMiddleware ==
    /\ \/ mw_before
       \/ mw_handler
       \/ mw_after
       \/ mw_after_done
       \/ mw_on_error
       \/ mw_on_error_done
    /\ UNCHANGED <<cbVars, retryVars, toVars, boVars, plVars, ipVars, rgVars, cfVars, mgrVars>>

SpecMiddleware == InitMiddleware /\ [][NextMiddleware]_vars

(***************************************************************************)
(* PipelineHandler::execute (handlers/pipeline.rs)                         *)
(* Names and strings are sequences of characters; the variable store is a  *)
(* function from the names it holds to their values.                       *)
(***************************************************************************)
MaxSteps == 2

\* the tools of the registry, and a name that is not registered
Registered == {<<"t">>}

Tools == Registered \cup {<<"u">>}

VarNames == {<<"a">>}

Conditions == {None} \cup {Some(n) : n \in VarNames} \cup {Some(<<"!">> \o n) : n \in VarNames}

\* PipelineStep::input: no template, or {"v": "{{a}}"}
InputTemplates == {None, Some(JObj(<<<<(<<"v">>), JStr(<<"{", "{", "a", "}", "}">>)>>>>))}

PipelineStep ==
    [tool : Tools,
     input : InputTemplates,
     output_var : {None} \cup {Some(n) : n \in VarNames},
     condition : Conditions,
     error_policy : {"FailFast", "Continue"}]

Pipelines == UNION {[1..n -> PipelineStep] : n \in 0..MaxSteps}

\* PipelineInput.variables
InputVariables == UNION {[D -> {JStr(<<"x">>)}] : D \in SUBSET VarNames}

\* HashMap::insert
Insert(map, key, value) ==
    [k \in DOMAIN map \cup {key} |-> IF k = key THEN value ELSE map[k]]

\* HashMap::contains_key
contains_key(map, key) == key \in DOMAIN map

\* the texts joined with commas
RECURSIVE JoinComma(_)
JoinComma(texts) ==
    IF texts = <<>> THEN <<>>
    ELSE IF Len(texts) = 1 THEN texts[1]
    ELSE texts[1] \o <<",">> \o JoinComma(Tail(texts))

\* serde_json::to_vec: the JSON text of a value (strings without escapes)
RECURSIVE to_vec(_)
to_vec(value) ==
    CASE value.t = "str" -> <<"\"">> \o value.s \o <<"\"">>
      [] value.t = "num" -> Digits(value.n)
      [] value.t = "bool" -> IF value.b THEN <<"t", "r", "u", "e">> ELSE <<"f", "a", "l", "s", "e">>
      [] value.t = "arr" ->
            <<"[">> \o JoinComma([i \in 1..Len(value.items) |-> to_vec(value.items[i])]) \o <<"]">>
      [] value.t = "obj" ->
            <<"{">> \o JoinComma([i \in 1..Len(value.fields) |->
                        <<"\"">> \o value.fields[i][1] \o <<"\"", ":">> \o to_vec(value.fields[i][2])])
                  \o <<"}">>
      [] OTHER -> <<"n", "u", "l", "l">>

DigitChars == {"0", "1", "2", "3", "4", "5", "6", "7", "8", "9"}

RECURSIVE ParseNat(_)
ParseNat(chars) ==
    LET d == CHOOSE n \in 0..9 : Digits(n) = <<chars[Len(chars)]>>
    IN IF Len(chars) = 1 THEN d ELSE 10 * ParseNat(SubSeq(chars, 1, Len(chars) - 1)) + d

\* serde_json::from_slice::<Value> of the text of a string, of a number or
\* of an object of at most one field; any other text of the model is not JSON
RECURSIVE from_slice(_)
from_slice(bytes) ==
    IF /\ Len(bytes) >= 2 /\ bytes[1] = "\"" /\ bytes[Len(bytes)] = "\""
       /\ \A i \in 2..(Len(bytes) - 1) : bytes[i] # "\""
    THEN Ok(JStr(SubSeq(bytes, 2, Len(bytes) - 1)))
    ELSE IF bytes # <<>> /\ \A i \in 1..Len(bytes) : bytes[i] \in DigitChars
    THEN Ok(JNum(ParseNat(bytes)))
    ELSE IF bytes = <<"{", "}">>
    THEN Ok(JObj(<<>>))
    ELSE IF /\ Len(bytes) >= 2 /\ bytes[1] = "{" /\ bytes[Len(bytes)] = "}"
            /\ \E i \in 2..(Len(bytes) - 1) : bytes[i] = ":"
    THEN LET colon == CHOOSE i \in 2..(Len(bytes) - 1) :
                          bytes[i] = ":" /\ \A j \in 2..(i - 1) : bytes[j] # ":"
             key == from_slice(SubSeq(bytes, 2, colon - 1))
             val == from_slice(SubSeq(bytes, colon + 1, Len(bytes) - 1))
         IN IF key.ok /\ key.value.t = "str" /\ val.ok
            THEN Ok(JObj(<<<<key.value.s, val.value>>>>))
            ELSE Err("Serialization", <<>>)
    ELSE Err("Serialization", <<>>)

\* format!("{{{{{}}}}}", key)
Pattern(key) == <<"{", "{">> \o key \o <<"}", "}">>

\* str::replace: every non-overlapping match of pat, from the left
RECURSIVE Replace(_, _, _)
Replace(chars, pat, to) ==
    IF Len(chars) < Len(pat) THEN chars
    ELSE IF SubSeq(chars, 1, Len(pat)) = pat
    THEN to \o Replace(SubSeq(chars, Len(pat) + 1, Len(chars)), pat, to)
    ELSE <<Head(chars)>> \o Replace(Tail(chars), pat, to)

\* the orders in which a HashMap can be iterated
Orders(map) ==
    {o \in [1..Cardinality(DOMAIN map) -> DOMAIN map] :
        \A i, j \in DOMAIN o : o[i] = o[j] => i = j}

\* Value::as_str
as_str(value) == IF value.t = "str" THEN Some(value.s) ELSE None

\* the body of the loop over the variables: the holes of key are replaced
\* when the value is a string
ReplaceHole(chars, key, value) ==
    IF as_str(value) # None THEN Replace(chars, Pattern(key), as_str(value)[1]) ELSE chars

\* for (key, value) in variables, in the order of the iteration
RECURSIVE ReplaceHoles(_, _, _)
ReplaceHoles(chars, variables_, order) ==
    IF order = <<>> THEN chars
    ELSE ReplaceHoles(ReplaceHole(chars, order[1], variables_[order[1]]), variables_, Tail(order))

\* keys that are interpolated like the string leaves
ObjectKeyInterpolated(k, variables_, order) == ReplaceHoles(k, variables_, order)

\* new_obj.insert(k.clone(), ...)
ObjectKey(k, variables_, order) == k

\* PipelineHandler::interpolate_variables, the HashMap being iterated in order
RECURSIVE interpolate_variables(_, _, _)
interpolate_variables(template, variables_, order) ==
    CASE template.t = "str" -> JStr(ReplaceHoles(template.s, variables_, order))
      [] template.t = "obj" ->
            JObj([i \in 1..Len(template.fields) |->
                    <<ObjectKey(template.fields[i][1], variables_, order),
                      interpolate_variables(template.fields[i][2], variables_, order)>>])
      [] template.t = "arr" ->
            JArr([i \in 1..Len(template.items) |->
                    interpolate_variables(template.items[i], variables_, order)])
      [] OTHER -> template

\* the outputs of the registered handler: a string or a number
HandlerOutputs == {JStr(<<"o", "u", "t">>), JNum(7)}

\* HandlerRegistry::dispatch: the results a call of the tool can have
dispatch(tool, payload) ==
    IF tool \in Registered
    THEN {Ok(to_vec(output)) : output \in HandlerOutputs} \cup {Err("Handler", <<"b", "o", "o", "m">>)}
    ELSE {Err("ToolNotFound", tool)}

\* the input of the step: its template interpolated, or json!({})
step_input(step, variables_, order) ==
    IF step.input # None
    THEN interpolate_variables(step.input[1], variables_, order)
    ELSE JObj(<<>>)

\* a condition that never holds back a step
evaluate_condition_always(condition, vars_) == TRUE

\* PipelineHandler::evaluate_condition
evaluate_condition(condition, vars_) ==
    IF condition # <<>> /\ Head(condition) = "!"
    THEN ~contains_key(vars_, Tail(condition))
    ELSE contains_key(vars_, condition)

StepResult(tool, success, output, error) ==
    [tool |-> tool, success |-> success, output |-> output, error |-> error]

PipelineOutput(res, vars_) == [results |-> res, variables |-> vars_]

\* a runner that never halts
ShouldHaltNever(step) == FALSE

\* a runner that halts at every failure
ShouldHaltAlways(step) == TRUE

\* step.error_policy == ErrorPolicy::FailFast
ShouldHalt(step) == step.error_policy = "FailFast"

SkipEvent(i) ==
    [kind |-> "skip", step |-> i, pre |-> variables, payload |-> <<>>, out |-> NoResponse]

DispatchEvent(i, payload, o) ==
    [kind |-> "dispatch", step |-> i, pre |-> variables, payload |-> payload, out |-> o]

\* the condition of the step is false: continue
pl_skip ==
    /\ ppc = "loop"
    /\ pi < Len(steps)
    /\ LET step == steps[pi + 1]
       IN /\ step.condition # None
          /\ ~evaluate_condition(step.condition[1], variables)
    /\ pi' = pi + 1
    /\ plog' = Append(plog, SkipEvent(pi + 1))
    /\ UNCHANGED <<steps, variables, results, ppc, presult>>

\* the step is dispatched and its result recorded
pl_dispatch ==
    /\ ppc = "loop"
    /\ pi < Len(steps)
    /\ LET step == steps[pi + 1]
       IN /\ step.condition # None => evaluate_condition(step.condition[1], variables)
          /\ \E order \in Orders(variables) :
             LET payload == to_vec(step_input(step, variables, order))
             IN \E o \in dispatch(step.tool, payload) :
                /\ plog' = Append(plog, DispatchEvent(pi + 1, payload, o))
                /\ IF o.ok
                   THEN LET output_value == from_slice(o.value)
                        IN IF ~output_value.ok
                           THEN /\ presult' = output_value
                                /\ ppc' = "done"
                                /\ UNCHANGED <<variables, results, pi>>
                           ELSE /\ variables' = IF step.output_var # None
                                                THEN Insert(variables, step.output_var[1], output_value.value)
                                                ELSE variables
                                /\ results' = Append(results, StepResult(step.tool, TRUE, Some(output_value.value), None))
                                /\ pi' = pi + 1
                                /\ UNCHANGED <<ppc, presult>>
                   ELSE LET step_result == StepResult(step.tool, FALSE, None, Some(Message(o)))
                        IN /\ results' = Append(results, step_result)
                           /\ UNCHANGED variables
                           /\ IF ShouldHalt(step)
                              THEN /\ presult' = o
                                   /\ ppc' = "done"
                                   /\ UNCHANGED pi
                              ELSE /\ pi' = pi + 1
                                   /\ UNCHANGED <<ppc, presult>>
    /\ UNCHANGED steps

\* the loop is over: Ok(PipelineOutput { results, variables })
pl_return ==
    /\ ppc = "loop"
    /\ pi = Len(steps)
    /\ presult' = Ok(PipelineOutput(results, variables))
    /\ ppc' = "done"
    /\ UNCHANGED <<steps, variables, results, pi, plog>>

\* handler.execute(input, &registry) is called
InitPipeline ==
    /\ IdleManagers
    /\ steps \in Pipelines
    /\ variables \in InputVariables
    /\ results = <<>>
    /\ pi = 0
    /\ ppc = "loop"
    /\ presult = NoResponse
    /\ plog = <<>>
    /\ IdleBreaker
    /\ InitCallers
    /\ IdleRetry
    /\ IdleTimeout
    /\ IdleBackoff
    /\ IdleMiddleware
    /\ IdleInterpolate
    /\ IdleRegistry
    /\ IdleConfig

NextPipeline ==
    /\ \/ pl_skip
       \/ pl_dispatch
       \/ pl_return
    /\ UNCHANGED <<cbVars, retryVars, toVars, boVars, mwVars, ipVars, rgVars, cfVars, mgrVars>>

SpecPipeline == InitPipeline /\ [][NextPipeline]_vars

(***************************************************************************)
(* PipelineHandler::interpolate_variables as a function of the template    *)
(* and the store                                                           *)
(***************************************************************************)
HoleX == Pattern(<<"x">>)

HoleY == Pattern(<<"y">>)

HiX == <<"h", "i", " ">> \o HoleX

\* the values of the store
StoreValues ==
    {JStr(<<"w", "o", "r", "l", "d">>), JStr(HoleY), JNum(5), JBool(TRUE),
     JArr(<<JNum(1)>>), JObj(<<<<(<<"k">>), JStr(<<"v">>)>>>>)}

Stores == UNION {[D -> StoreValues] : D \in SUBSET {<<"x">>, <<"y">>}}

\* the templates: every JSON type, holes in string leaves at every depth and
\* in a key
Templates ==
    {JStr(HiX), JStr(HoleX \o HoleY \o HoleX), JStr(<<"{", "{", "x", "}">>),
     JNum(7), JBool(FALSE), JNull,
     JArr(<<JStr(HoleX), JNum(2), JArr(<<JStr(HoleY)>>)>>),
     JObj(<<<<HoleX, JStr(HoleX)>>, <<(<<"n">>), JObj(<<<<(<<"m">>), JStr(HiX)>>, <<(<<"z">>), JNull>>>>)>>>>)}

\* handler.interpolate_variables(&template, &variables)
interpolate_call ==
    /\ ~ip_result.called
    /\ \E order \in Orders(ip_variables) :
          ip_result' = [value |-> interpolate_variables(ip_template, ip_variables, order),
                        template |-> ip_template, called |-> TRUE]
    /\ UNCHANGED <<ip_template, ip_variables>>

InitInterpolate ==
    /\ IdleManagers
    /\ ip_template \in Templates
    /\ ip_variables \in Stores
    /\ ip_result = NotInterpolated
    /\ IdleBreaker
    /\ InitCallers
    /\ IdleRetry
    /\ IdleTimeout
    /\ IdleBackoff
    /\ IdleMiddleware
    /\ IdlePipeline
    /\ IdleRegistry
    /\ IdleConfig

NextInterpolate ==
    /\ interpolate_call
    /\ UNCHANGED <<cbVars, retryVars, toVars, boVars, mwVars, plVars, rgVars, cfVars, mgrVars>>

SpecInterpolate == InitInterpolate /\ [][NextInterpolate]_vars

(***************************************************************************)
(* The circuit breaker with one caller.                                    *)
(***************************************************************************)
AtRest(p) == pc[p] \in {"idle", "ret"}

Rejected(p) == result[p] = ErrCircuitOpen /\ ~hist[p].ran

\* the call of p was checked before the cooldown of the opening it found had elapsed
CheckedEarly(p) ==
    /\ hist[p].startState = "Open"
    /\ hist[p].startLft # None
    /\ hist[p].checkedAt < hist[p].startLft[1] + config.timeout

\* C1: from a Closed breaker with failure_threshold = k >= 1, the breaker is
\* still Closed after fewer than k consecutive failed calls and Open after k;
\* every call checked before the cooldown has elapsed returns
\* HandlerFailure("Circuit breaker is OPEN") and its operation is not run.
C1_OpensAfterKFailures ==
    \A p \in SeqCallers :
        /\ (AtRest(p) /\ config.failure_threshold >= 1 /\ ghist.base = "Closed") =>
              /\ ghist.streak < config.failure_threshold => state = "Closed"
              /\ ghist.streak >= config.failure_threshold => state = "Open"
        /\ (pc[p] = "ret" /\ hist[p].startState = "Open") => hist[p].startLft # None
        /\ (pc[p] = "ret" /\ CheckedEarly(p)) => Rejected(p)

C1_Witness ==
    /\ pc[1] = "ret"
    /\ CheckedEarly(1)
    /\ Rejected(1)
    /\ config.failure_threshold = MaxThreshold
    /\ ghist.base = "Closed"
    /\ ghist.streak = config.failure_threshold
    /\ ghist.openedFrom = "Closed"

\* C2: a call that starts once the cooldown has elapsed is admitted and runs
\* its operation with the breaker HalfOpen and the success count reset to 0;
\* the breaker stays HalfOpen while fewer than success_threshold successes
\* are recorded, and the success that reaches success_threshold closes it
\* with both counters at 0; a Closed breaker admits calls.
C2_HalfOpenRecovery ==
    \A p \in SeqCallers :
        /\ (pc[p] = "ret" /\ hist[p].startState = "Open" /\ hist[p].startLft # None
               /\ hist[p].checkedAt >= hist[p].startLft[1] + config.timeout) =>
              hist[p].ran /\ hist[p].stateAtOp = "HalfOpen"
        /\ (pc[p] = "op" /\ hist[p].startState = "Open") =>
              state = "HalfOpen" /\ success_count = 0
        /\ (AtRest(p) /\ state = "HalfOpen") =>
              /\ ghist.hoSucc < config.success_threshold
              /\ success_count = ghist.hoSucc
        /\ (pc[p] = "ret" /\ hist[p].stateAtOp = "HalfOpen" /\ hist[p].ran
               /\ result[p].ok) =>
              IF ghist.hoSucc >= config.success_threshold
              THEN /\ state = "Closed"
                   /\ failure_count = 0
                   /\ success_count = 0
                   /\ config.success_threshold >= 1 =>
                         ghist.hoSucc = config.success_threshold
              ELSE state = "HalfOpen"
        /\ (pc[p] = "ret" /\ hist[p].startState = "Closed") => hist[p].ran

C2_Witness ==
    /\ pc[1] = "ret"
    /\ hist[1].stateAtOp = "HalfOpen"
    /\ hist[1].startState = "HalfOpen"
    /\ result[1].ok
    /\ config.success_threshold = MaxThreshold
    /\ ghist.hoSucc = config.success_threshold
    /\ state = "Closed"
    /\ config.timeout >= 1

\* C3: a failed call while the breaker is HalfOpen leaves it Open with a
\* timestamp taken at or after that failure, whatever the successes recorded
\* in HalfOpen; calls checked before the cooldown has elapsed from that
\* timestamp are rejected.
C3_HalfOpenFailureReopens ==
    \A p \in SeqCallers :
        /\ (pc[p] = "ret" /\ hist[p].ran /\ hist[p].stateAtOp = "HalfOpen"
               /\ ~result[p].ok) =>
              /\ state = "Open"
              /\ last_failure_time # None
              /\ last_failure_time[1] >= hist[p].opAt
              /\ last_failure_time[1] <= now
        /\ (pc[p] = "ret" /\ ghist.openedFrom = "HalfOpen" /\ CheckedEarly(p)) =>
              /\ Rejected(p)
              /\ hist[p].startLft[1] >= hist[p].startOpenedAt

C3_Witness ==
    /\ pc[1] = "ret"
    /\ ghist.openedFrom = "HalfOpen"
    /\ ghist.hoSucc >= 1
    /\ CheckedEarly(1)
    /\ Rejected(1)
    /\ hist[1].startLft[1] >= 1

\* C5: a successful call on a Closed breaker leaves the failure count at 0;
\* at rest the failure count of a Closed breaker is the number of consecutive
\* failures since the last success, and the breaker has opened from Closed
\* only with at least failure_threshold consecutive failures.
C5_SuccessResetsFailures ==
    \A p \in SeqCallers :
        /\ (pc[p] = "ret" /\ hist[p].ran /\ hist[p].stateAtOp = "Closed"
               /\ result[p].ok) =>
              failure_count = 0 /\ state = "Closed"
        /\ (AtRest(p) /\ state = "Closed") => failure_count = ghist.streak
        /\ (state = "Open" /\ ghist.openedFrom = "Closed") =>
              ghist.openStreak >= config.failure_threshold

C5_Witness ==
    /\ pc[1] = "ret"
    /\ hist[1].ran
    /\ hist[1].stateAtOp = "Closed"
    /\ hist[1].failuresAtOp >= 1
    /\ result[1].ok
    /\ failure_count = 0

(***************************************************************************)
(* The circuit breaker with concurrent callers.                            *)
(***************************************************************************)
\* C4: the transition to Open is one indivisible step: a caller that found the
\* breaker Open has read the timestamp of that opening, and runs its
\* operation only once the cooldown has elapsed since the opening.
C4_AtomicTransitions ==
    \A p \in Callers :
        (pc[p] = "op" /\ loc[p].current_state = "Open") =>
            /\ loc[p].last_failure # None
            /\ now >= hist[p].startOpenedAt + config.timeout

(***************************************************************************)
(* retry_with_policy: what its caller can observe.                         *)
(***************************************************************************)
Attempts == SelectSeq(log, LAMBDA e : e.ev = "attempt")

Sleeps == SelectSeq(log, LAMBDA e : e.ev = "sleep")

\* the message of the failure contains one of the retryable substrings
MessageRetryable(error) == \E n \in RetryableNeedles : Contains(Message(error), n)

AllAttemptsFailRetryable ==
    \A i \in 1..Len(Attempts) : ~Attempts[i].out.ok /\ is_retryable(Attempts[i].out)

\* C6: with max_attempts = n >= 1 and every attempt failing with an error that
\* is_retryable accepts, the operation is run exactly n times (never more
\* than n) and the error returned is the one of the n-th attempt.
C6_ExactlyMaxAttempts ==
    /\ policy.max_attempts >= 1 => Len(Attempts) <= policy.max_attempts
    /\ (rpc = "done" /\ policy.max_attempts >= 1 /\ AllAttemptsFailRetryable) =>
          /\ Len(Attempts) = policy.max_attempts
          /\ rresult = Attempts[Len(Attempts)].out

C6_Witness ==
    /\ rpc = "done"
    /\ policy.max_attempts = MaxAttempts
    /\ AllAttemptsFailRetryable
    /\ Len(Attempts) = MaxAttempts
    /\ Attempts[1].out # Attempts[Len(Attempts)].out
    /\ rresult = Attempts[Len(Attempts)].out

\* C7: an attempt that succeeds, or that fails with a non-retryable error, is
\* the last thing retry_with_policy does: its result is returned as it is, no
\* attempt and no backoff delay follows, however many attempts remain.
C7_NonRetryableReturnsAtOnce ==
    \A i \in 1..Len(log) :
        (/\ log[i].ev = "attempt"
         /\ \/ log[i].out.ok
            \/ ~MessageRetryable(log[i].out)
            \/ ~is_retryable(log[i].out)) =>
            /\ i = Len(log)
            /\ rpc = "done"
            /\ sleeping = 0
            /\ rresult = log[i].out

C7_Witness ==
    /\ rpc = "done"
    /\ Len(Attempts) = 2
    /\ policy.max_attempts = MaxAttempts
    /\ Len(Attempts) < policy.max_attempts
    /\ ~rresult.ok
    /\ rresult.kind = "Handler"
    /\ ~MessageRetryable(rresult)
    /\ log[Len(log)] = AttemptEvent(rresult)

\* C8: attempts and sleeps alternate, starting and ending with an attempt;
\* the sleep after the i-th failed attempt, i = 1 .. max_attempts - 1, is a
\* value of backoff_duration(i - 1): 10 ms then 20 ms for 3 attempts, 10 ms
\* initial backoff, multiplier 2 and no jitter.
C8_SleepsBetweenAttempts ==
    /\ \A i \in 1..Len(log) : (log[i].ev = "attempt") <=> (i % 2 = 1)
    /\ rpc = "done" => (log # <<>> => log[Len(log)].ev = "attempt")
    /\ rpc = "sleep" => (log # <<>> /\ log[Len(log)] = SleepEvent(sleeping))
    /\ \A j \in 1..Len(Sleeps) :
          /\ j <= policy.max_attempts - 1
          /\ ~log[2 * j - 1].out.ok
          /\ log[2 * j] = Sleeps[j]
          /\ Sleeps[j].d \in backoff_duration(policy, U32(j - 1))
    /\ (policy = TestPolicy /\ Len(Sleeps) >= 1) => Sleeps[1].d = 10
    /\ (policy = TestPolicy /\ Len(Sleeps) >= 2) => Sleeps[2].d = 20
    /\ (policy = TestPolicy /\ rpc = "done" /\ Len(Attempts) = 3) => now = 30

C8_Witness ==
    /\ rpc = "done"
    /\ policy = TestPolicy
    /\ Len(Attempts) = 3
    /\ ~rresult.ok
    /\ Len(Sleeps) = 2
    /\ Sleeps[1].d = 10
    /\ Sleeps[2].d = 20
    /\ now = 30

\* C9: a failed attempt that is not the last one allowed is retried exactly
\* when the message of its failure contains "timeout", "timed out",
\* "connection" or "temporary", whatever the kind of the failure.
C9_RetryableByMessage ==
    \A i \in 1..Len(log) :
        (/\ log[i].ev = "attempt"
         /\ ~log[i].out.ok
         /\ (i + 1) \div 2 < policy.max_attempts) =>
            ((i = Len(log) /\ rpc = "done") <=> ~MessageRetryable(log[i].out))

(***************************************************************************)
(* with_timeout: what its caller can observe.                              *)
(***************************************************************************)
\* C10: with_timeout returns the output of the future when the future
\* completes; otherwise, once the duration has elapsed, it returns
\* HandlerFailure("Operation timed out after <duration>"), the future is
\* dropped and takes no further step.
C10_TimeoutGate ==
    /\ tpc = "waiting" => fut.status = "pending"
    /\ fut.status = "ready" => (tpc = "done" /\ tresult = Ok(fut.output))
    /\ (tpc = "done" /\ tresult.ok) => (fut.status = "ready" /\ tresult = Ok(fut.output))
    /\ (tpc = "done" /\ ~tresult.ok /\ tresult # NoResult) =>
          /\ tresult = ErrTimedOut(duration)
          /\ Contains(Message(tresult), <<"t", "i", "m", "e", "d", " ", "o", "u", "t">>)
          /\ now >= Deadline
          /\ fut.status = "dropped"
          /\ fut.effects = treport

C10_Witness ==
    /\ tpc = "done"
    /\ tresult = ErrTimedOut(duration)
    /\ duration >= 1
    /\ fut.effects >= 1
    /\ fut.idx <= Len(fut.waits)
    /\ now > fut.wake

(***************************************************************************)
(* with_timeout inside retry_with_policy.                                  *)
(***************************************************************************)
TimedOut(o) == \E d \in 0..MaxTimeout : o = ErrTimedOut(d)

RECURSIVE SumD(_)
SumD(events) == IF events = <<>> THEN 0 ELSE events[1].d + SumD(Tail(events))

\* C11: an attempt that expires under with_timeout is a retryable failure;
\* each attempt has a deadline counted from its own start; the loop ends with
\* the first attempt that completes, or after max_attempts expired attempts
\* with the timeout failure of the last one.
C11_TimeoutComposesWithRetry ==
    /\ \A d \in 0..MaxTimeout : is_retryable(ErrTimedOut(d))
    /\ \A i \in 1..Len(Attempts) :
          /\ Attempts[i].out.ok \/ TimedOut(Attempts[i].out)
          /\ Attempts[i].out.ok =>
                (i = Len(Attempts) /\ rpc = "done" /\ rresult = Attempts[i].out)
    /\ Len(Attempts) <= policy.max_attempts
    /\ (rpc = "done" /\ policy.max_attempts >= 1) =>
          /\ Len(Attempts) >= 1
          /\ rresult = Attempts[Len(Attempts)].out
          /\ ~rresult.ok => Len(Attempts) = policy.max_attempts
    /\ rpc = "op" => fut.born >= SumD(Sleeps)
    /\ (rpc = "op" /\ tpc = "done" /\ ~tresult.ok) =>
          /\ tresult = ErrTimedOut(duration)
          /\ now >= fut.born + duration
          /\ fut.status = "dropped"
    /\ (rpc = "op" /\ tpc = "done" /\ tresult.ok) => fut.status = "ready"

C11_Witness ==
    /\ rpc = "done"
    /\ policy = TestPolicy
    /\ Len(Attempts) = 3
    /\ TimedOut(Attempts[1].out) /\ TimedOut(Attempts[2].out)
    /\ rresult = Ok(42)
    /\ fut.status = "ready"
    /\ Len(fut.waits) >= 1
    /\ fut.waits[1] >= 1
    /\ fut.born >= 30
    /\ fut.doneAt <= fut.born + duration

(***************************************************************************)
(* backoff_duration against min(initial * multiplier^a, max).              *)
(***************************************************************************)
\* the value of the u32 a is at most n
U32AtMost(a, n) == a[1] = 0 /\ a[2] <= n

U32Leq(a, b) == a[1] < b[1] \/ (a[1] = b[1] /\ a[2] <= b[2])

\* min(initial_backoff * multiplier^a, max_backoff) in whole milliseconds, for
\* multiplier >= 1: computed for a <= MaxExactExp; for a >= 1024 the product
\* is initial_backoff when the multiplier is 1, 0 when initial_backoff is 0,
\* and otherwise at least 1.5^1024, above every max_backoff
MinPowMs(pol, a) ==
    IF U32AtMost(a, MaxExactExp)
    THEN LET num == pol.initial_backoff * Pow(pol.backoff_multiplier[1], a[2])
             den == Pow(pol.backoff_multiplier[2], a[2])
         IN Min(num \div den, pol.max_backoff)
    ELSE IF pol.backoff_multiplier[1] = pol.backoff_multiplier[2] \/ pol.initial_backoff = 0
         THEN Min(pol.initial_backoff, pol.max_backoff)
         ELSE pol.max_backoff

\* C12: without jitter, backoff_duration(a) is min(initial_backoff *
\* multiplier^a, max_backoff) in whole milliseconds for every attempt index a.
C12_BackoffIsMinPow ==
    (bo_result # NotCalled /\ ~bo_policy.use_jitter) =>
        bo_result = MinPowMs(bo_policy, bo_attempt)

\* C12, second part: without jitter the backoff never exceeds max_backoff and,
\* the multiplier being at least 1, does not decrease with the attempt index.
C12_BackoffMonotone ==
    ~bo_policy.use_jitter =>
        \A a, b \in AttemptIndices :
            \A da \in backoff_duration(bo_policy, a), db \in backoff_duration(bo_policy, b) :
                /\ da <= bo_policy.max_backoff
                /\ U32Leq(a, b) => da <= db

\* C12 for the attempt indices up to MaxExactExp
C12_BackoffSmallIndices ==
    (bo_result # NotCalled /\ ~bo_policy.use_jitter /\ U32AtMost(bo_attempt, MaxExactExp)) =>
        bo_result = MinPowMs(bo_policy, bo_attempt)

(***************************************************************************)
(* MiddlewareChain::execute: what its caller and the hooks can observe.    *)
(***************************************************************************)
\* the position of the handler in mlog when every before-hook has succeeded
HandlerAt == Len(middlewares) + 1

HandlerRan == Len(mlog) >= HandlerAt /\ mlog[HandlerAt].hook = "handler"

\* C13: the before-hooks run in insertion order, each on the request returned
\* by the one before it; the handler receives the request of the last
\* before-hook; after a success of the handler the after-hooks run in reverse
\* insertion order, each on the response returned by the one run before it.
C13_HookOrder ==
    /\ \A k \in 1..Len(mlog) :
          /\ k < HandlerAt =>
                /\ mlog[k].hook = "before"
                /\ mlog[k].mw = k
                /\ mlog[k].arg = IF k = 1 THEN <<>> ELSE mlog[k - 1].out.value
          /\ k = HandlerAt =>
                /\ mlog[k].hook = "handler"
                /\ mlog[k].arg = IF k = 1 THEN <<>> ELSE mlog[k - 1].out.value
          /\ (k > HandlerAt /\ mlog[HandlerAt].out.ok) =>
                /\ mlog[k].hook = "after"
                /\ mlog[k].mw = Len(middlewares) + 1 - (k - HandlerAt)
                /\ mlog[k].req = mlog[HandlerAt].arg
                /\ mlog[k - 1].out.ok
                /\ mlog[k].arg = mlog[k - 1].out.value
    /\ (mpc = "done" /\ mresult.ok /\ handler = "ok") =>
          /\ Len(mlog) = 2 * Len(middlewares) + 1
          /\ mresult = mlog[Len(mlog)].out

C13_Witness ==
    /\ mpc = "done"
    /\ Len(middlewares) = 2
    /\ Len(mlog) = 5
    /\ mlog[HandlerAt].arg = <<Tag(1), Tag(2)>>
    /\ mresult = Ok(<<Tag(1), Tag(2), "handler", Tag(2), Tag(1)>>)

\* C14: when the before-hook of the i-th middleware fails, execute returns
\* that failure and runs nothing more: no later before-hook, no handler, no
\* after-hook and no on_error hook.
C14_BeforeFailureShortCircuits ==
    \A k \in 1..Len(mlog) :
        (mlog[k].hook = "before" /\ ~mlog[k].out.ok) =>
            /\ k = Len(mlog)
            /\ mlog[k].mw = k
            /\ \A j \in 1..(k - 1) : mlog[j].hook = "before"
            /\ mpc = "done"
            /\ mresult = mlog[k].out

C14_Witness ==
    /\ mpc = "done"
    /\ Len(middlewares) = 2
    /\ middlewares[1].on_error = "recover"
    /\ middlewares[2].before = "fail"
    /\ Len(mlog) = 2
    /\ mresult = Err("Handler", <<"before", Tag(2)>>)

\* C15: when the handler succeeds and an after-hook fails, the on_error hooks
\* run on that failure, starting with the last middleware inserted.
C15_AfterFailureRunsOnError ==
    \A k \in 1..Len(mlog) :
        (mpc = "done" /\ mlog[k].hook = "after" /\ ~mlog[k].out.ok) =>
            /\ Len(mlog) > k
            /\ mlog[k + 1].hook = "on_error"
            /\ mlog[k + 1].mw = Len(middlewares)
            /\ mlog[k + 1].arg = mlog[k].out

\* C16: when the handler fails, the on_error hooks run in reverse insertion
\* order, each on the error re-raised by the one run before it; the first
\* response returned ends execute with that response (no further on_error
\* hook, no after-hook); with no response, execute fails with the error
\* re-raised last, which is the handler's own when every hook re-raises it.
C16_OnErrorChain ==
    /\ \A k \in 1..Len(mlog) :
          mlog[k].hook = "on_error" =>
              /\ k > HandlerAt
              /\ mlog[HandlerAt].hook = "handler"
              /\ mlog[k].mw = Len(middlewares) + 1 - (k - HandlerAt)
              /\ mlog[k].req = mlog[HandlerAt].arg
              /\ ~mlog[k - 1].out.ok
              /\ mlog[k].arg = mlog[k - 1].out
              /\ mlog[k].out.ok => (k = Len(mlog) /\ mpc = "done" /\ mresult = mlog[k].out)
    /\ (HandlerRan /\ ~mlog[HandlerAt].out.ok) =>
          /\ \A k \in 1..Len(mlog) : mlog[k].hook # "after"
          /\ \A k \in (HandlerAt + 1)..Len(mlog) : mlog[k].hook = "on_error"
          /\ mpc = "done" =>
                /\ mresult = mlog[Len(mlog)].out
                /\ ~mresult.ok => Len(mlog) = 2 * Len(middlewares) + 1
                /\ (\A i \in 1..Len(middlewares) : middlewares[i].on_error = "reraise") =>
                      mresult = mlog[HandlerAt].out

C16_Witness ==
    /\ mpc = "done"
    /\ Len(middlewares) = 2
    /\ handler = "fail"
    /\ middlewares[2].on_error = "transform"
    /\ middlewares[1].on_error = "recover"
    /\ Len(mlog) = 5
    /\ mlog[5].arg = Err("Handler", <<"failed", Tag(2)>>)
    /\ mresult = Ok(<<"recovered", Tag(1)>>)

(***************************************************************************)
(* HandlerRegistry (registry.rs)                                           *)
(***************************************************************************)
MaxOps == 3

\* the names tools are registered and called under
ToolNames == {<<"x">>, <<"y">>}

\* the handlers: TestHandler and ErrorHandler of the tests, CliHandler and
\* HttpHandler of the runtime
HandlerKinds == {"TestHandler", "ErrorHandler", "CliHandler", "HttpHandler"}

HandlerEntryImpl(h) == [handler |-> h]

\* the payloads: {"value":21}, {"invalid":"json"}, {} and a text that is not JSON
ValuePayload == <<"{", "\"", "v", "a", "l", "u", "e", "\"", ":", "2", "1", "}">>

InvalidPayload ==
    <<"{", "\"", "i", "n", "v", "a", "l", "i", "d", "\"", ":", "\"", "j", "s", "o", "n", "\"", "}">>

EmptyObjectPayload == <<"{", "}">>

NotJsonPayload == <<"{", "x">>

Payloads == {ValuePayload, InvalidPayload, EmptyObjectPayload, NotJsonPayload}

\* the field of an object, None when the object lacks it
Field(obj, key) ==
    IF \E i \in 1..Len(obj.fields) : obj.fields[i][1] = key
    THEN Some(obj.fields[CHOOSE i \in 1..Len(obj.fields) : obj.fields[i][1] = key][2])
    ELSE None

\* Deserialize for H::Input: TestInput { value: i32 } has a required field,
\* every field of CliInput and of HttpInput has a default
from_value(h, value) ==
    IF value.t # "obj" THEN Err("Serialization", <<>>)
    ELSE IF h \in {"TestHandler", "ErrorHandler"}
    THEN IF Field(value, <<"v", "a", "l", "u", "e">>) # None
            /\ Field(value, <<"v", "a", "l", "u", "e">>)[1].t = "num"
         THEN Ok([value |-> Field(value, <<"v", "a", "l", "u", "e">>)[1].n])
         ELSE Err("Serialization", <<>>)
    ELSE IF h = "CliHandler"
    THEN Ok([args |-> <<>>, env |-> EmptyMap])
    ELSE Ok([body |-> None, query |-> EmptyMap])

\* serde_json::from_slice::<H::Input>(params)
from_slice_input(h, params) ==
    IF from_slice(params).ok THEN from_value(h, from_slice(params).value) ELSE from_slice(params)

\* Handler::handle: what a run of the handler can return
handle(h, input) ==
    CASE h = "TestHandler" -> {Ok(JObj(<<<<(<<"r", "e", "s", "u", "l", "t">>), JNum(input.value * 2)>>>>))}
      [] h = "ErrorHandler" -> {Err("Handler", <<"t", "e", "s", "t", " ", "e", "r", "r", "o", "r">>)}
      [] h = "CliHandler" ->
            {Ok(JObj(<<<<(<<"e", "x", "i", "t", "_", "c", "o", "d", "e">>), JNum(0)>>>>)),
             Err("Handler", <<"s", "p", "a", "w", "n">>),
             Err("Timeout", <<>>)}
      [] OTHER ->
            {Ok(JObj(<<<<(<<"s", "t", "a", "t", "u", "s">>), JNum(200)>>>>)),
             Err("Http", <<"d", "o", "w", "n">>)}

\* a conversion that reports every failure as Error::Handler
into_handler_error(error) == Err("Handler", Message(error))

\* map_err(Into::into) with H::Error = Error: From<T> for T
into_error(error) == error

\* HandlerEntryImpl::dispatch: the outcomes of a call, each with the runs of
\* the handler it made
entry_dispatch(entry, params) ==
    LET input == from_slice_input(entry.handler, params)
    IN IF ~input.ok
       THEN {[out |-> input, ran |-> <<>>]}
       ELSE {[out |-> IF output.ok THEN Ok(to_vec(output.value)) ELSE into_error(output),
              ran |-> <<[handler |-> entry.handler, input |-> input.value, output |-> output]>>] :
                output \in handle(entry.handler, input.value)}

\* a lookup that falls back on some entry of the map
get_any(map, key) ==
    IF key \in DOMAIN map THEN Some(map[key])
    ELSE IF DOMAIN map # {} THEN Some(map[CHOOSE k \in DOMAIN map : TRUE])
    ELSE None

\* HashMap::get
get(map, key) == IF key \in DOMAIN map THEN Some(map[key]) ELSE None

\* HandlerRegistry::dispatch
registry_dispatch(map, tool, params) ==
    IF get(map, tool) # None
    THEN entry_dispatch(get(map, tool)[1], params)
    ELSE {[out |-> Err("ToolNotFound", tool), ran |-> <<>>]}

\* H::input_schema() and H::output_schema()
RootSchema(h, side) == [of |-> h, side |-> side]

\* HandlerRegistry::get_input_schema / get_output_schema
get_schema(map, tool, side) ==
    IF get(map, tool) # None THEN Some(RootSchema(get(map, tool)[1].handler, side)) ELSE None

RegistryEvent(op, name, arg, out, ran) ==
    [op |-> op, name |-> name, arg |-> arg, pre |-> handlers, out |-> out, ran |-> ran]

\* HandlerRegistry::register
rg_register ==
    /\ Len(rg_log) < MaxOps
    /\ \E name \in ToolNames, h \in HandlerKinds :
          /\ handlers' = Insert(handlers, name, HandlerEntryImpl(h))
          /\ rg_log' = Append(rg_log, RegistryEvent("register", name, h, NoResponse, <<>>))

\* HandlerRegistry::dispatch
rg_dispatch ==
    /\ Len(rg_log) < MaxOps
    /\ \E tool \in ToolNames, params \in Payloads :
          \E r \in registry_dispatch(handlers, tool, params) :
              rg_log' = Append(rg_log, RegistryEvent("dispatch", tool, params, r.out, r.ran))
    /\ UNCHANGED handlers

\* HandlerRegistry::get_input_schema and get_output_schema
rg_get_schema ==
    /\ Len(rg_log) < MaxOps
    /\ \E tool \in ToolNames, side \in {"input", "output"} :
          rg_log' = Append(rg_log, RegistryEvent("schema", tool, side,
                                                 get_schema(handlers, tool, side), <<>>))
    /\ UNCHANGED handlers

InitRegistry ==
    /\ IdleManagers
    /\ IdleRegistry
    /\ IdleBreaker
    /\ InitCallers
    /\ IdleRetry
    /\ IdleTimeout
    /\ IdleBackoff
    /\ IdleMiddleware
    /\ IdlePipeline
    /\ IdleInterpolate
    /\ IdleConfig

NextRegistry ==
    /\ \/ rg_register
       \/ rg_dispatch
       \/ rg_get_schema
    /\ UNCHANGED <<cbVars, retryVars, toVars, boVars, mwVars, plVars, ipVars, cfVars, mgrVars>>

SpecRegistry == InitRegistry /\ [][NextRegistry]_vars

(***************************************************************************)
(* interpolate_variables: the value it returns.                            *)
(***************************************************************************)
\* the string form of a value: the text of a string, the JSON text otherwise
StringForm(value) == IF value.t = "str" THEN value.s ELSE to_vec(value)

\* the text with every hole of a variable of the store replaced by the string
\* form of its value
RECURSIVE Substituted(_, _)
Substituted(chars, store) ==
    IF chars = <<>> THEN <<>>
    ELSE LET names == {n \in DOMAIN store :
                          /\ Len(chars) >= Len(Pattern(n))
                          /\ SubSeq(chars, 1, Len(Pattern(n))) = Pattern(n)}
         IN IF names = {}
            THEN <<Head(chars)>> \o Substituted(Tail(chars), store)
            ELSE LET n == CHOOSE m \in names : TRUE
                 IN StringForm(store[n])
                      \o Substituted(SubSeq(chars, Len(Pattern(n)) + 1, Len(chars)), store)

\* the template with the holes of its string leaves substituted
RECURSIVE SubstitutedTree(_, _)
SubstitutedTree(template, store) ==
    CASE template.t = "str" -> JStr(Substituted(template.s, store))
      [] template.t = "obj" ->
            JObj([i \in 1..Len(template.fields) |->
                    <<template.fields[i][1], SubstitutedTree(template.fields[i][2], store)>>])
      [] template.t = "arr" ->
            JArr([i \in 1..Len(template.items) |-> SubstitutedTree(template.items[i], store)])
      [] OTHER -> template

(***************************************************************************)
(* PipelineHandler::execute: what its caller and the registry can observe. *)
(***************************************************************************)
\* the step dispatched by the k-th event failed and its policy is fail_fast
FailFastFailure(k) ==
    /\ plog[k].kind = "dispatch"
    /\ ~plog[k].out.ok
    /\ steps[plog[k].step].error_policy = "FailFast"

\* C17: a failure of a fail_fast step ends execute: no later step is
\* dispatched and the failure returned is the error of that step itself.
C17_FailFastHalts ==
    /\ \A k \in 1..Len(plog) :
          FailFastFailure(k) =>
              /\ k = Len(plog)
              /\ ppc = "done"
              /\ presult = plog[k].out
    /\ (ppc = "done" /\ ~presult.ok) =>
          /\ plog # <<>>
          /\ FailFastFailure(Len(plog))
          /\ \A k \in 1..(Len(plog) - 1) : ~FailFastFailure(k)

C17_Witness ==
    /\ ppc = "done"
    /\ Len(steps) = 2
    /\ Len(plog) = 2
    /\ steps[1].error_policy = "Continue"
    /\ plog[1].out = Err("Handler", <<"b", "o", "o", "m">>)
    /\ steps[2].error_policy = "FailFast"
    /\ presult = Err("ToolNotFound", <<"u">>)

\* the step results the caller of execute receives
ReturnedResults(r) == IF r.ok THEN r.value.results ELSE <<>>

\* C18: a pipeline halted by a fail_fast failure returns, with the failure,
\* the results accumulated so far, the record of the failing step last.
C18_HaltedReturnsResults ==
    (ppc = "done" /\ ~presult.ok) =>
        /\ ReturnedResults(presult) = results
        /\ results # <<>>
        /\ ~results[Len(results)].success

Skipped == {k \in 1..Len(plog) : plog[k].kind = "skip"}

AllContinue == \A i \in 1..Len(steps) : steps[i].error_policy = "Continue"

\* C19: with every step on `continue` and no step skipped, the steps are
\* dispatched in list order whatever their outcomes, execute returns success
\* and results has one record per step, in step order, with success = false
\* and the message of the error for a step that failed.
C19_ContinueRunsAll ==
    (AllContinue /\ Skipped = {}) =>
        /\ \A k \in 1..Len(plog) : plog[k].kind = "dispatch" /\ plog[k].step = k
        /\ ppc = "done" =>
              /\ presult = Ok(PipelineOutput(results, variables))
              /\ Len(plog) = Len(steps)
              /\ Len(presult.value.results) = Len(steps)
              /\ \A i \in 1..Len(steps) :
                    LET r == presult.value.results[i]
                    IN /\ r.tool = steps[i].tool
                       /\ r.success = plog[i].out.ok
                       /\ ~plog[i].out.ok =>
                             (r.error = Some(Message(plog[i].out)) /\ r.output = None)
                       /\ plog[i].out.ok => r.error = None

C19_Witness ==
    /\ ppc = "done"
    /\ AllContinue
    /\ Len(steps) = 2
    /\ Skipped = {}
    /\ presult.ok
    /\ presult.value.results[1].error =
          Some(<<"T", "o", "o", "l", " ", "n", "o", "t", " ", "f", "o", "u", "n", "d", ":", " ", "u">>)
    /\ presult.value.results[2].success

\* the store after the k-th event: the output of a successful step bound to
\* its output_var
StoreAfter(k) ==
    IF plog[k].kind = "dispatch" /\ plog[k].out.ok /\ steps[k].output_var # None
    THEN Insert(plog[k].pre, steps[k].output_var[1], from_slice(plog[k].out.value).value)
    ELSE plog[k].pre

\* C21: the steps run in list order, each on the store left by the steps
\* before it, and a step whose template has the hole of a variable bound by an
\* earlier step is dispatched with the hole replaced by that step's output.
C21_LaterStepsSeeBinding ==
    \A k \in 1..Len(plog) :
        /\ plog[k].step = k
        /\ k > 1 => plog[k].pre = StoreAfter(k - 1)
        /\ (plog[k].kind = "dispatch" /\ steps[k].input # None) =>
              plog[k].payload = to_vec(SubstitutedTree(steps[k].input[1], plog[k].pre))

\* C21 for the stores that hold only strings
C21_StringBindingVisible ==
    \A k \in 1..Len(plog) :
        /\ plog[k].step = k
        /\ k > 1 => plog[k].pre = StoreAfter(k - 1)
        /\ (/\ plog[k].kind = "dispatch"
            /\ steps[k].input # None
            /\ \A n \in DOMAIN plog[k].pre : plog[k].pre[n].t = "str") =>
              plog[k].payload = to_vec(SubstitutedTree(steps[k].input[1], plog[k].pre))

\* step 1 bound "out" to a and step 2 was dispatched with {"v":"out"}
C21_StringBindingReached ==
    /\ Len(plog) = 2
    /\ plog[1].kind = "dispatch"
    /\ steps[1].output_var = Some(<<"a">>)
    /\ plog[1].out = Ok(<<"\"", "o", "u", "t", "\"">>)
    /\ plog[2].kind = "dispatch"
    /\ plog[2].payload = <<"{", "\"", "v", "\"", ":", "\"", "o", "u", "t", "\"", "}">>

\* the condition is a bare name whose variable is absent, or `!name` whose
\* variable is present
ConditionFalse(condition, store) ==
    /\ condition # None
    /\ \E n \in VarNames :
          \/ condition = Some(n) /\ n \notin DOMAIN store
          \/ condition = Some(<<"!">> \o n) /\ n \in DOMAIN store

\* C20: a step whose condition is false against the store is skipped: it is
\* not dispatched, no record is appended, the store is unchanged, and the
\* run goes on with the next step.
C20_FalseConditionSkips ==
    /\ \A k \in 1..Len(plog) :
          /\ plog[k].step = k
          /\ ConditionFalse(steps[k].condition, plog[k].pre) <=> plog[k].kind = "skip"
          /\ plog[k].kind = "skip" =>
                /\ k < Len(plog) => plog[k + 1].pre = plog[k].pre
                /\ k = Len(plog) => (variables = plog[k].pre /\ pi = k)
                /\ (k = Len(plog) /\ ppc = "done") => (presult.ok /\ k = Len(steps))
    /\ Len(results) = Len(plog) - Cardinality(Skipped)

C20_Witness ==
    /\ ppc = "done"
    /\ Len(steps) = 2
    /\ steps[1].condition = Some(<<"a">>)
    /\ steps[1].tool = <<"u">>
    /\ steps[1].error_policy = "FailFast"
    /\ steps[2].condition = Some(<<"!", "a">>)
    /\ Skipped = {1}
    /\ presult.ok
    /\ Len(presult.value.results) = 1
    /\ presult.value.results[1].success

(***************************************************************************)
(* validate_config (pforge-config/src/validator.rs)                        *)
(* A manifest is the list of its tools; parse_config binds name, handler   *)
(* path and step tools to any string of the file.                          *)
(***************************************************************************)
MaxTools == 2

\* a name of 51 characters
LongName == [i \in 1..51 |-> "a"]

\* ToolDef::name: any String
ConfigNames == {<<"a">>, <<"d", "u", "p">>, <<>>, <<"B">>, LongName}

\* HandlerRef::path: module::function, the empty path, a path without ::
HandlerPaths == {<<"m", ":", ":", "f">>, <<>>, <<"m", "f">>}

\* the tools named by the steps of a pipeline tool
StepTools == {<<>>, <<(<<"a">>)>>, <<(<<"d", "u", "p">>)>>}

Native(name, path) == [type |-> "native", name |-> name, path |-> path, steps |-> <<>>]

Cli(name) == [type |-> "cli", name |-> name, path |-> <<>>, steps |-> <<>>]

Http(name) == [type |-> "http", name |-> name, path |-> <<>>, steps |-> <<>>]

Pipeline(name, step_tools) ==
    [type |-> "pipeline", name |-> name, path |-> <<>>, steps |-> step_tools]

ToolDef ==
    {Native(n, h) : n \in ConfigNames, h \in HandlerPaths}
        \cup {Cli(n) : n \in ConfigNames}
        \cup {Http(n) : n \in ConfigNames}
        \cup {Pipeline(n, st) : n \in ConfigNames, st \in StepTools}

\* ForgeConfig::tools
ForgeConfig == UNION {[1..n -> ToolDef] : n \in 0..MaxTools}

Unit == <<>>

\* a first loop that remembers only the names of the native tools
RECURSIVE check_duplicates_native_only(_, _, _)
check_duplicates_native_only(tools, i, tool_names) ==
    IF i > Len(tools) THEN Ok(Unit)
    ELSE IF tools[i].name \in tool_names
    THEN Err("DuplicateToolName", tools[i].name)
    ELSE check_duplicates_native_only(tools, i + 1,
            IF tools[i].type = "native" THEN tool_names \cup {tools[i].name} ELSE tool_names)

\* the first loop of validate_config: tool_names.insert(name) from tool i on
RECURSIVE check_duplicates(_, _, _)
check_duplicates(tools, i, tool_names) ==
    IF i > Len(tools) THEN Ok(Unit)
    ELSE IF tools[i].name \in tool_names
    THEN Err("DuplicateToolName", tools[i].name)
    ELSE check_duplicates(tools, i + 1, tool_names \cup {tools[i].name})

\* validate_handler_path
validate_handler_path(path) ==
    IF path = <<>>
    THEN Err("InvalidHandlerPath", <<"e", "m", "p", "t", "y", " ", "p", "a", "t", "h">>)
    ELSE IF ~Contains(path, <<":", ":">>)
    THEN Err("InvalidHandlerPath",
             <<"i", "n", "v", "a", "l", "i", "d", " ", "f", "o", "r", "m", "a", "t", ":", " ">> \o path)
    ELSE Ok(Unit)

\* the second loop of validate_config, from tool i on
RECURSIVE check_handler_paths(_, _)
check_handler_paths(tools, i) ==
    IF i > Len(tools) THEN Ok(Unit)
    ELSE IF tools[i].type = "native" /\ ~validate_handler_path(tools[i].path).ok
    THEN validate_handler_path(tools[i].path)
    ELSE check_handler_paths(tools, i + 1)

\* validate_config
validate_config(tools) ==
    IF ~check_duplicates(tools, 1, {}).ok
    THEN check_duplicates(tools, 1, {})
    ELSE check_handler_paths(tools, 1)

\* validate_config(&config) is called
validate_call ==
    /\ vresult = NotValidated
    /\ vresult' = validate_config(server_config)
    /\ UNCHANGED <<server_config, spc>>

InitValidate ==
    /\ IdleManagers
    /\ server_config \in ForgeConfig
    /\ vresult = NotValidated
    /\ spc = "off"
    /\ IdleBreaker
    /\ InitCallers
    /\ IdleRetry
    /\ IdleTimeout
    /\ IdleBackoff
    /\ IdleMiddleware
    /\ IdlePipeline
    /\ IdleInterpolate
    /\ IdleRegistry

NextValidate ==
    /\ validate_call
    /\ UNCHANGED <<cbVars, retryVars, toVars, boVars, mwVars, plVars, ipVars, rgVars, mgrVars>>

SpecValidate == InitValidate /\ [][NextValidate]_vars

(***************************************************************************)
(* The serve path (pforge-cli serve.rs, McpServer of server.rs)            *)
(***************************************************************************)
MaxCalls == 1

\* the loop of McpServer::register_handlers from tool i on: Cli and Http
\* tools are registered, Native and Pipeline tools only noted
RECURSIVE register_handlers(_, _, _)
register_handlers(tools, i, registry) ==
    IF i > Len(tools) THEN registry
    ELSE register_handlers(tools, i + 1,
            CASE tools[i].type = "cli" -> Insert(registry, tools[i].name, HandlerEntryImpl("CliHandler"))
              [] tools[i].type = "http" -> Insert(registry, tools[i].name, HandlerEntryImpl("HttpHandler"))
              [] OTHER -> registry)

\* McpServer::new(config)
serve_new ==
    /\ spc = "parsed"
    /\ spc' = "created"
    /\ handlers' = EmptyMap
    /\ UNCHANGED <<server_config, vresult, rg_log>>

\* McpServer::run up to the wait for ctrl_c: the handlers are registered
serve_run ==
    /\ spc = "created"
    /\ handlers' = register_handlers(server_config, 1, handlers)
    /\ spc' = "serving"
    /\ UNCHANGED <<server_config, vresult, rg_log>>

\* ctrl_c ends the wait of McpServer::run
serve_shutdown ==
    /\ spc = "serving"
    /\ spc' = "stopped"
    /\ UNCHANGED <<server_config, vresult, handlers, rg_log>>

\* host code registers the handler of a native tool through registry()
serve_host_register ==
    /\ spc = "serving"
    /\ \E i \in 1..Len(server_config) :
          /\ server_config[i].type = "native"
          /\ server_config[i].name \notin DOMAIN handlers
          /\ handlers' = Insert(handlers, server_config[i].name, HandlerEntryImpl("TestHandler"))
    /\ UNCHANGED <<server_config, vresult, spc, rg_log>>

\* a tool of the manifest is called through the registry
serve_dispatch ==
    /\ spc = "serving"
    /\ Len(rg_log) < MaxCalls
    /\ \E i \in 1..Len(server_config) :
          \E r \in registry_dispatch(handlers, server_config[i].name, EmptyObjectPayload) :
              rg_log' = Append(rg_log, RegistryEvent("dispatch", server_config[i].name,
                                                     EmptyObjectPayload, r.out, r.ran))
    /\ UNCHANGED <<server_config, vresult, spc, handlers>>

\* parse_config(path) returned Ok(config)
InitServe ==
    /\ IdleManagers
    /\ server_config \in ForgeConfig
    /\ vresult = NotValidated
    /\ spc = "parsed"
    /\ IdleRegistry
    /\ IdleBreaker
    /\ InitCallers
    /\ IdleRetry
    /\ IdleTimeout
    /\ IdleBackoff
    /\ IdleMiddleware
    /\ IdlePipeline
    /\ IdleInterpolate

NextServe ==
    /\ \/ serve_new
       \/ serve_run
       \/ serve_shutdown
       \/ serve_host_register
       \/ serve_dispatch
    /\ UNCHANGED <<cbVars, retryVars, toVars, boVars, mwVars, plVars, ipVars, mgrVars>>

SpecServe == InitServe /\ [][NextServe]_vars

(***************************************************************************)
(* interpolate_variables: the holes of its result.                         *)
(***************************************************************************)
\* C22: every hole whose variable is in the store is replaced by the string
\* form of the variable's value, whatever the JSON type of the value.
C22_HolesReplacedByStringForm ==
    ip_result.called => ip_result.value = SubstitutedTree(ip_template, ip_variables)

\* C22 for stores that hold only strings without holes
C22_StringValuesReplaced ==
    (/\ ip_result.called
     /\ \A n \in DOMAIN ip_variables :
           ip_variables[n].t = "str" /\ ip_variables[n].s # HoleY) =>
        ip_result.value = SubstitutedTree(ip_template, ip_variables)

\* some hole of a variable of the store occurs in the text
HasPresentHole(chars, store) ==
    \E n \in DOMAIN store : \E i \in 1..Len(chars) :
        /\ i + Len(Pattern(n)) - 1 <= Len(chars)
        /\ SubSeq(chars, i, i + Len(Pattern(n)) - 1) = Pattern(n)

\* result is template but for string leaves that had a hole of a variable of
\* the store
RECURSIVE OnlyStringLeavesChanged(_, _, _)
OnlyStringLeavesChanged(template, value, store) ==
    CASE template.t = "str" ->
            /\ value.t = "str"
            /\ ~HasPresentHole(template.s, store) => value.s = template.s
      [] template.t = "obj" ->
            /\ value.t = "obj"
            /\ Len(value.fields) = Len(template.fields)
            /\ \A i \in 1..Len(template.fields) :
                  /\ value.fields[i][1] = template.fields[i][1]
                  /\ OnlyStringLeavesChanged(template.fields[i][2], value.fields[i][2], store)
      [] template.t = "arr" ->
            /\ value.t = "arr"
            /\ Len(value.items) = Len(template.items)
            /\ \A i \in 1..Len(template.items) :
                  OnlyStringLeavesChanged(template.items[i], value.items[i], store)
      [] OTHER -> value = template

World == JStr(<<"w", "o", "r", "l", "d">>)

HiWorld == JStr(<<"h", "i", " ", "w", "o", "r", "l", "d">>)

\* C23: interpolation changes only string leaves: keys, numbers, booleans
\* and null are copied, arrays and objects are traversed, a hole whose
\* variable is absent stays; "hi {{x}}" gives "hi world" with x = "world" and
\* itself with an empty store; the template is left as it was.
C23_OnlyStringLeaves ==
    ip_result.called =>
        /\ OnlyStringLeavesChanged(ip_template, ip_result.value, ip_variables)
        /\ ip_result.template = ip_template
        /\ ip_variables = EmptyMap => ip_result.value = ip_template
        /\ (ip_template = JStr(HiX) /\ DOMAIN ip_variables = {<<"x">>}
              /\ ip_variables[<<"x">>] = World) => ip_result.value = HiWorld

C23_Witness ==
    /\ ip_result.called
    /\ DOMAIN ip_variables = {<<"x">>}
    /\ ip_variables[<<"x">>] = World
    /\ ip_result.value =
          JObj(<<<<HoleX, World>>,
                 <<(<<"n">>), JObj(<<<<(<<"m">>), HiWorld>>, <<(<<"z">>), JNull>>>>)>>>>)

(***************************************************************************)
(* HandlerRegistry: what its callers observe.                              *)
(***************************************************************************)
\* the entries after the k-th call
RgPost(k) == IF k < Len(rg_log) THEN rg_log[k + 1].pre ELSE handlers

\* C24: on a registry without an entry for the name, dispatch fails with
\* ToolNotFound(name) and runs no handler, and both schema lookups return
\* None; register binds the name to the new handler, leaves the other entries
\* alone, and leaves the number of entries as it was when the name was bound.
C24_MissingToolNotFound ==
    \A k \in 1..Len(rg_log) :
        LET e == rg_log[k]
        IN /\ (e.op = "dispatch" /\ e.name \notin DOMAIN e.pre) =>
                 (e.out = Err("ToolNotFound", e.name) /\ e.ran = <<>>)
           /\ (e.op = "schema" /\ e.name \notin DOMAIN e.pre) => e.out = None
           /\ e.op = "register" =>
                 /\ DOMAIN RgPost(k) = DOMAIN e.pre \cup {e.name}
                 /\ RgPost(k)[e.name] = HandlerEntryImpl(e.arg)
                 /\ \A n \in DOMAIN e.pre \ {e.name} : RgPost(k)[n] = e.pre[n]
                 /\ e.name \in DOMAIN e.pre =>
                       Cardinality(DOMAIN RgPost(k)) = Cardinality(DOMAIN e.pre)
           /\ e.op # "register" => RgPost(k) = e.pre

C24_Witness ==
    /\ Len(rg_log) = 3
    /\ rg_log[1].op = "register" /\ rg_log[1].name = <<"x">> /\ rg_log[1].arg = "TestHandler"
    /\ rg_log[2].op = "register" /\ rg_log[2].name = <<"x">> /\ rg_log[2].arg = "ErrorHandler"
    /\ rg_log[3].op = "dispatch" /\ rg_log[3].name = <<"y">>
    /\ rg_log[3].out = Err("ToolNotFound", <<"y">>)
    /\ rg_log[3].ran = <<>>
    /\ Cardinality(DOMAIN handlers) = 1
    /\ handlers[<<"x">>] = HandlerEntryImpl("ErrorHandler")

\* the payloads that deserialize to the Input of the handler
Decodes(h, params) ==
    IF h \in {"TestHandler", "ErrorHandler"}
    THEN params = ValuePayload
    ELSE params \in {ValuePayload, InvalidPayload, EmptyObjectPayload}

\* C25: dispatch on a registered name fails with Error::Serialization and
\* runs no handler when the payload does not deserialize to the handler's
\* Input; otherwise it runs the handler once and returns the encoding of its
\* output, or the failure of the handler as the handler made it.
C25_DispatchRunsOnce ==
    \A k \in 1..Len(rg_log) :
        LET e == rg_log[k]
        IN (e.op = "dispatch" /\ e.name \in DOMAIN e.pre) =>
              LET h == e.pre[e.name].handler
              IN /\ ~Decodes(h, e.arg) =>
                       (~e.out.ok /\ e.out.kind = "Serialization" /\ e.ran = <<>>)
                 /\ Decodes(h, e.arg) =>
                       /\ Len(e.ran) = 1
                       /\ e.ran[1].handler = h
                       /\ e.ran[1].output.ok => e.out = Ok(to_vec(e.ran[1].output.value))
                       /\ ~e.ran[1].output.ok => e.out = e.ran[1].output
                 /\ (h = "TestHandler" /\ e.arg = ValuePayload) =>
                       /\ e.ran[1].input = [value |-> 21]
                       /\ e.out = Ok(<<"{", "\"", "r", "e", "s", "u", "l", "t", "\"", ":", "4", "2", "}">>)

C25_Witness ==
    /\ Len(rg_log) = 3
    /\ rg_log[1].op = "register" /\ rg_log[1].name = <<"x">> /\ rg_log[1].arg = "TestHandler"
    /\ rg_log[2].op = "dispatch" /\ rg_log[2].name = <<"x">> /\ rg_log[2].arg = InvalidPayload
    /\ rg_log[2].out = Err("Serialization", <<>>)
    /\ rg_log[2].ran = <<>>
    /\ rg_log[3].op = "dispatch" /\ rg_log[3].name = <<"x">> /\ rg_log[3].arg = ValuePayload
    /\ rg_log[3].out.ok
    /\ Len(rg_log[3].ran) = 1

\* a failure of the handler that is not Error::Handler reached the caller
C25_VariantReached ==
    \E k \in 1..Len(rg_log) :
        /\ rg_log[k].op = "dispatch"
        /\ rg_log[k].out = Err("Timeout", <<>>)
        /\ Len(rg_log[k].ran) = 1

(***************************************************************************)
(* The serve path: what is registered, and from which manifests.           *)
(***************************************************************************)
Registering == {"cli", "http", "pipeline"}

\* C26: once run has registered the handlers, every subprocess, HTTP and
\* pipeline tool of the manifest has an entry of its kind in the registry and
\* a dispatch by its name is not refused with ToolNotFound; only native tools
\* have no entry until host code registers them.
C26_NonNativeToolsDispatchable ==
    spc = "serving" =>
        /\ \A i \in 1..Len(server_config) :
              server_config[i].type \in Registering =>
                  server_config[i].name \in DOMAIN handlers
        /\ \A k \in 1..Len(rg_log) :
              (\E i \in 1..Len(server_config) :
                  /\ server_config[i].name = rg_log[k].name
                  /\ server_config[i].type \in Registering) =>
                  rg_log[k].out # Err("ToolNotFound", rg_log[k].name)

\* C26 for the subprocess and HTTP tools
C26_CliHttpDispatchable ==
    spc = "serving" =>
        /\ \A i \in 1..Len(server_config) :
              server_config[i].type \in {"cli", "http"} =>
                  server_config[i].name \in DOMAIN handlers
        /\ \A n \in DOMAIN handlers :
              \E i \in 1..Len(server_config) :
                  /\ server_config[i].name = n
                  /\ server_config[i].type \in {"cli", "http", "native"}

\* a subprocess tool was dispatched, a native tool registered by the host
C26_CliHttpReached ==
    /\ spc = "serving"
    /\ server_config = <<Cli(<<"a">>), Native(<<"d", "u", "p">>, <<"m", ":", ":", "f">>)>>
    /\ DOMAIN handlers = {<<"a">>, <<"d", "u", "p">>}
    /\ Len(rg_log) = 1
    /\ rg_log[1].name = <<"a">>
    /\ rg_log[1].out.ok

\* C27: on the serve path handlers are registered and serving starts only
\* from a manifest that passes validation.
C27_ServeOnlyValidated ==
    spc \in {"serving", "stopped"} => validate_config(server_config).ok

(***************************************************************************)
(* validate_config: the manifests it accepts.                              *)
(***************************************************************************)
Validated == vresult # NotValidated

\* the names carried by two tools of the manifest
RepeatedNames(tools) ==
    {tools[i].name : i \in {j \in 1..Len(tools) :
                              \E l \in 1..Len(tools) : l # j /\ tools[l].name = tools[j].name}}

\* C28 as stated: validation fails exactly when two tools share a name, and
\* then with DuplicateToolName carrying the repeated name.
C28_FailsIffDuplicate ==
    Validated =>
        /\ ~vresult.ok <=> RepeatedNames(server_config) # {}
        /\ RepeatedNames(server_config) # {} =>
              /\ vresult.kind = "DuplicateToolName"
              /\ vresult.msg \in RepeatedNames(server_config)

\* some native tool has a handler path that is empty or lacks ::
BadHandlerPath(tools) ==
    \E i \in 1..Len(tools) :
        /\ tools[i].type = "native"
        /\ \/ tools[i].path = <<>>
           \/ \A j \in 1..(Len(tools[i].path) - 1) :
                 ~(tools[i].path[j] = ":" /\ tools[i].path[j + 1] = ":")

\* C28 amended: validation fails with DuplicateToolName exactly when two
\* tools share a name, whatever their variants, and the error carries the
\* repeated name; a manifest of distinct names fails only with
\* InvalidHandlerPath, for a native handler path that is empty or lacks ::.
C28_DuplicateNameIffDuplicateError ==
    Validated =>
        /\ (~vresult.ok /\ vresult.kind = "DuplicateToolName") <=>
              RepeatedNames(server_config) # {}
        /\ RepeatedNames(server_config) # {} => vresult.msg \in RepeatedNames(server_config)
        /\ (~vresult.ok /\ RepeatedNames(server_config) = {}) =>
              (vresult.kind = "InvalidHandlerPath" /\ BadHandlerPath(server_config))
        /\ (RepeatedNames(server_config) = {} /\ ~BadHandlerPath(server_config)) => vresult.ok

C28_Witness ==
    /\ server_config = <<Cli(<<"d", "u", "p">>), Pipeline(<<"d", "u", "p">>, <<>>)>>
    /\ vresult = Err("DuplicateToolName", <<"d", "u", "p">>)

\* some step of a pipeline tool names a tool that no tool of the manifest carries
DanglingStep(tools) ==
    \E i \in 1..Len(tools) : \E k \in 1..Len(tools[i].steps) :
        \A j \in 1..Len(tools) : tools[j].name # tools[i].steps[k]

\* C29: a manifest with a pipeline step that names a tool the manifest does
\* not carry is rejected.
C29_DanglingStepRejected ==
    (Validated /\ DanglingStep(server_config)) => ~vresult.ok

\* a reference to a tool declared later in the list is accepted
C29_ForwardReferenceReached ==
    /\ server_config = <<Pipeline(<<"d", "u", "p">>, <<(<<"a">>)>>), Cli(<<"a">>)>>
    /\ vresult = Ok(Unit)

NameChars ==
    {"a", "b", "c", "d", "e", "f", "g", "h", "i", "j", "k", "l", "m", "n", "o", "p", "q",
     "r", "s", "t", "u", "v", "w", "x", "y", "z",
     "0", "1", "2", "3", "4", "5", "6", "7", "8", "9", "-", "_"}

\* ^[a-z0-9_-]{1,50}$
NameOk(name) ==
    /\ Len(name) >= 1
    /\ Len(name) <= 50
    /\ \A i \in 1..Len(name) : name[i] \in NameChars

\* C30: every tool name of a manifest that passes validation matches
\* ^[a-z0-9_-]{1,50}$.
C30_LoadedNamesMatch ==
    (Validated /\ vresult.ok) =>
        \A i \in 1..Len(server_config) : NameOk(server_config[i].name)

(***************************************************************************)
(* CircuitBreaker: the state and the failure counter together.             *)
(***************************************************************************)
\* C36: with failure_threshold >= 1, a breaker whose state is Closed has a
\* failure count strictly below failure_threshold, in every reachable state.
C36_ClosedBelowThreshold ==
    (config.failure_threshold >= 1 /\ state = "Closed") =>
        failure_count < config.failure_threshold

\* C36 in the states where no caller is inside call
C36_ClosedBelowThresholdAtRest ==
    (/\ config.failure_threshold >= 1
     /\ state = "Closed"
     /\ \A p \in Callers : pc[p] = "idle") =>
        failure_count < config.failure_threshold

(* RecoveryMiddleware: the hooks of a middleware guarded by a breaker. *)
MaxRequests == 4

ErrServiceUnavailable == Err("Handler", "Circuit breaker is OPEN - service unavailable")

\* the characters of the message of the handler's error
ErrorText(error) ==
    IF error.msg = "test error"
    THEN <<"t", "e", "s", "t", " ", "e", "r", "r", "o", "r">>
    ELSE <<>>

\* ErrorTracker::classify_error
classify_error(error) ==
    IF error.kind = "Handler"
    THEN IF \/ Contains(ErrorText(error), <<"t", "i", "m", "e", "o", "u", "t">>)
            \/ Contains(ErrorText(error), <<"t", "i", "m", "e", "d", " ", "o", "u", "t">>)
         THEN "timeout"
         ELSE IF Contains(ErrorText(error),
                          <<"c", "o", "n", "n", "e", "c", "t", "i", "o", "n">>)
              THEN "connection"
              ELSE "handler_error"
    ELSE "unknown"

\* *errors.entry(error_type).or_insert(0) += 1
count_error(map, error_type) ==
    Insert(map, error_type,
           IF contains_key(map, error_type) THEN map[error_type] + 1 ELSE 1)

\* RecoveryMiddleware::before: cb.get_state().await and the test of Open
recovery_before(p) ==
    /\ pc[p] = "idle"
    /\ started < MaxRequests
    /\ started' = started + 1
    /\ hist' = [hist EXCEPT ![p] =
                  [Hist0 EXCEPT !.startState = state, !.startLft = last_failure_time,
                                !.startOpenedAt = ghist.openedAt, !.checkedAt = now]]
    /\ IF state = "Open"
       THEN Return(p, ErrServiceUnavailable)
       ELSE Goto(p, "handler") /\ UNCHANGED <<loc, result>>
    /\ UNCHANGED <<config, state, failure_count, success_count, last_failure_time,
                   lftReaders, now, ghist>>

\* the handler run by the chain between the hooks: its response goes to
\* after, its error to on_error
recovery_handler(p) ==
    /\ pc[p] = "handler"
    /\ \E o \in Outcomes :
         /\ loc' = [loc EXCEPT ![p].outcome = o]
         /\ Goto(p, IF o.ok THEN "on_success" ELSE "track_error")
         /\ hist' = [hist EXCEPT ![p].ran = TRUE, ![p].stateAtOp = state,
                                 ![p].failuresAtOp = failure_count, ![p].opAt = now]
         /\ ghist' = [ghist EXCEPT
                        !.streak = IF o.ok THEN 0 ELSE Min(@ + 1, StreakCap),
                        !.hoSucc = IF o.ok /\ state = "HalfOpen"
                                   THEN Min(@ + 1, StreakCap) ELSE @]
    /\ UNCHANGED <<config, state, failure_count, success_count, last_failure_time,
                   lftReaders, now, result, started>>

\* RecoveryMiddleware::on_error: self.error_tracker.track_error(&error).await
recovery_track_error(p) ==
    /\ pc[p] = "track_error"
    /\ total_errors' = total_errors + 1
    /\ errors_by_type' = count_error(errors_by_type, classify_error(loc[p].outcome))
    /\ Goto(p, "on_failure")
    /\ UNCHANGED <<config, state, failure_count, success_count, last_failure_time,
                   lftReaders, now, loc, result, hist, ghist, started>>

\* RecoveryMiddleware::after: cb.on_success().await; Ok(response)
recovery_after(p) ==
    \/ on_success_get_state(p)
    \/ on_success_half_open(p)
    \/ on_success_close(p)
    \/ on_success_close_failures(p)
    \/ on_success_close_successes(p)
    \/ on_success_closed(p)

\* RecoveryMiddleware::on_error: cb.on_failure().await; Err(error)
recovery_on_error(p) ==
    \/ on_failure_get_state(p)
    \/ on_failure_closed(p)
    \/ on_failure_open(p)
    \/ on_failure_stamp(p)
    \/ on_failure_reopen(p)
    \/ on_failure_restamp(p)
    \/ on_failure_set_count(p)

\* RecoveryMiddleware::new().with_circuit_breaker(config)
InitRecovery ==
    /\ config \in PositiveConfigs
    /\ NewBreaker
    /\ InitCallers
    /\ IdleErrorTracker
    /\ IdleRetry
    /\ IdleTimeout
    /\ IdleBackoff
    /\ IdleMiddleware
    /\ IdlePipeline
    /\ IdleInterpolate
    /\ IdleRegistry
    /\ IdleConfig
    /\ IdleCounter
    /\ IdleLock
    /\ IdleMetrics
    /\ IdleState
    /\ IdleResources
    /\ IdlePrompts

\* one chain with the middleware: a request goes through before, the handler
\* and after or on_error before the next one starts
NextRecovery ==
    /\ \/ Tick /\ UNCHANGED <<started, etVars>>
       \/ \E p \in SeqCallers :
            \/ recovery_before(p) /\ UNCHANGED etVars
            \/ recovery_handler(p) /\ UNCHANGED etVars
            \/ recovery_track_error(p)
            \/ (recovery_after(p) \/ recovery_on_error(p) \/ call_return(p))
               /\ UNCHANGED <<started, etVars>>
    /\ UNCHANGED <<retryVars, toVars, boVars, mwVars, plVars, ipVars, rgVars, cfVars, prVars, rsVars, stVars, tmVars, lkVars, ctVars>>

SpecRecovery == InitRecovery /\ [][NextRecovery]_vars

\* the before-hook of caller p has returned and the handler has not run yet
BeforeReturned(p) ==
    \/ pc[p] = "handler"
    \/ pc[p] = "ret" /\ ~hist[p].ran

\* the before-hook of caller p found the breaker Open with its cooldown over
OpenCooldownOver(p) ==
    /\ BeforeReturned(p)
    /\ hist[p].startState = "Open"
    /\ hist[p].startLft # None
    /\ hist[p].checkedAt - hist[p].startLft[1] >= config.timeout

\* C35: a request that reaches the before-hook of a RecoveryMiddleware when its
\* breaker is Open and the cooldown has elapsed since the breaker opened is
\* admitted, and the breaker is HalfOpen after the hook.
C35_AdmittedAfterCooldown ==
    \A p \in SeqCallers :
        OpenCooldownOver(p) => (pc[p] = "handler" /\ state = "HalfOpen")

\* C35, first half: the before-hook rejects a request that finds the breaker
\* Open before the cooldown has elapsed, and the breaker is Open exactly after
\* failure_threshold errors in a row reported to on_error
C35_RejectsWhileOpen ==
    \A p \in SeqCallers :
        (/\ BeforeReturned(p)
         /\ hist[p].startState = "Open"
         /\ hist[p].startLft # None
         /\ hist[p].checkedAt - hist[p].startLft[1] < config.timeout) =>
            (/\ pc[p] = "ret"
             /\ result[p] = ErrServiceUnavailable
             /\ state = "Open"
             /\ ghist.openStreak >= config.failure_threshold)

\* a request rejected by the before-hook before the cooldown has elapsed
C35_RejectedReached ==
    \E p \in SeqCallers :
        /\ pc[p] = "ret"
        /\ ~hist[p].ran
        /\ result[p] = ErrServiceUnavailable
        /\ hist[p].checkedAt - hist[p].startLft[1] < config.timeout

(* PromptManager: register and render. *)
\* ParamType::Simple(ty)
Simple(ty) == [kind |-> "simple", ty |-> ty, required |-> FALSE]

\* ParamType::Complex { ty, required, .. }
Complex(ty, required) == [kind |-> "complex", ty |-> ty, required |-> required]

ParamTypes == {Simple("string"), Complex("string", TRUE), Complex("string", FALSE)}

ArgNames == {<<"x">>, <<"y">>}

PromptName == <<"p">>

UnknownPrompt == <<"q">>

\* PromptDef.template
PromptTemplates ==
    {<<"h", "i">>, <<"h", "i", " ">> \o HoleX, HoleX \o <<" ">> \o HoleY}

\* PromptDef
PromptDefs ==
    {[name |-> PromptName, template |-> t, arguments |-> a] :
        t \in PromptTemplates, a \in UNION {[D -> ParamTypes] : D \in SUBSET ArgNames}}

\* the values of the arguments passed to render
ArgValues == {JStr(<<"A">>), JStr(HoleY), JNum(30), JNull}

RenderArgs == UNION {[D -> ArgValues] : D \in SUBSET ArgNames}

ErrAlreadyRegistered(name) ==
    Err("Handler", <<"P", "r", "o", "m", "p", "t", " ", "'">> \o name \o <<"'", " ", "a", "l", "r", "e", "a", "d", "y", " ", "r", "e", "g", "i", "s", "t", "e", "r", "e", "d">>)

ErrPromptNotFound(name) ==
    Err("Handler", <<"P", "r", "o", "m", "p", "t", " ", "'">> \o name \o <<"'", " ", "n", "o", "t", " ", "f", "o", "u", "n", "d">>)

ErrRequiredArgument(arg_name) ==
    Err("Handler", <<"R", "e", "q", "u", "i", "r", "e", "d", " ", "a", "r", "g", "u", "m", "e", "n", "t", " ", "'">> \o arg_name \o <<"'", " ", "n", "o", "t", " ", "p", "r", "o", "v", "i", "d", "e", "d">>)

ErrUnresolved(names) ==
    Err("Handler", <<"U", "n", "r", "e", "s", "o", "l", "v", "e", "d", " ", "t", "e", "m", "p", "l", "a", "t", "e", " ", "v", "a", "r", "i", "a", "b", "l", "e", "s", ":", " ">> \o names)

\* validate_arguments: let is_required = match param_type
is_required(param_type) ==
    IF param_type.kind = "complex" THEN param_type.required ELSE FALSE

\* validate_arguments: for (arg_name, param_type) in &entry.arguments, in the
\* order of the iteration
RECURSIVE validate_arguments(_, _, _)
validate_arguments(arguments, args, order) ==
    IF order = <<>> THEN Ok(Unit)
    ELSE IF is_required(arguments[order[1]]) /\ ~contains_key(args, order[1])
    THEN ErrRequiredArgument(order[1])
    ELSE validate_arguments(arguments, args, Tail(order))

\* interpolate: let replacement = match value
replacement(value) ==
    CASE value.t = "str" -> value.s
      [] value.t = "num" -> Digits(value.n)
      [] value.t = "bool" -> IF value.b THEN <<"t", "r", "u", "e">> ELSE <<"f", "a", "l", "s", "e">>
      [] value.t = "null" -> <<>>
      [] OTHER -> to_vec(value)

\* interpolate: for (key, value) in args, in the order of the iteration
RECURSIVE replace_args(_, _, _)
replace_args(chars, args, order) ==
    IF order = <<>> THEN chars
    ELSE replace_args(Replace(chars, Pattern(order[1]), replacement(args[order[1]])),
                      args, Tail(order))

\* str::split(sep): the pieces between the matches of sep, from the left
RECURSIVE split(_, _, _)
split(chars, sep, piece) ==
    IF Len(chars) < Len(sep) THEN <<piece \o chars>>
    ELSE IF SubSeq(chars, 1, Len(sep)) = sep
    THEN <<piece>> \o split(SubSeq(chars, Len(sep) + 1, Len(chars)), sep, <<>>)
    ELSE split(Tail(chars), sep, Append(piece, Head(chars)))

\* [&str]::join(", ")
RECURSIVE join(_)
join(texts) ==
    IF texts = <<>> THEN <<>>
    ELSE IF Len(texts) = 1 THEN texts[1]
    ELSE texts[1] \o <<",", " ">> \o join(Tail(texts))

\* interpolate: result.split("{{").skip(1).filter_map(|s| s.split("}}").next())
unresolved(chars) ==
    LET pieces == Tail(split(chars, <<"{", "{">>, <<>>))
    IN [i \in 1..Len(pieces) |-> split(pieces[i], <<"}", "}">>, <<>>)[1]]

\* PromptManager::interpolate
interpolate(template, args, order) ==
    LET text == replace_args(template, args, order)
    IN IF /\ Contains(text, <<"{", "{">>)
          /\ Contains(text, <<"}", "}">>)
          /\ unresolved(text) # <<>>
       THEN ErrUnresolved(join(unresolved(text)))
       ELSE Ok(text)

\* PromptManager::render; varder is the order of the iteration over the
\* declared arguments, order the one over args
render(map, name, args, varder, order) ==
    IF get(map, name) = None THEN ErrPromptNotFound(name)
    ELSE LET entry == get(map, name)[1]
         IN IF ~validate_arguments(entry.arguments, args, varder).ok
            THEN validate_arguments(entry.arguments, args, varder)
            ELSE interpolate(entry.template, args, order)

\* manager.register(def)
prompt_register ==
    \E def \in PromptDefs :
        IF contains_key(prompts, def.name)
        THEN /\ pr_result' = [op |-> "register", name |-> def.name,
                              out |-> ErrAlreadyRegistered(def.name)]
             /\ UNCHANGED prompts
        ELSE /\ prompts' = Insert(prompts, def.name,
                                  [template |-> def.template, arguments |-> def.arguments])
             /\ pr_result' = [op |-> "register", name |-> def.name, out |-> Ok(Unit)]

\* the orders in which render can iterate over the declared arguments of name
Varders(map, name) ==
    IF contains_key(map, name) THEN Orders(map[name].arguments) ELSE {<<>>}

\* manager.render(name, args)
prompt_render ==
    \E name \in {PromptName, UnknownPrompt}, args \in RenderArgs :
        \E varder \in Varders(prompts, name), order \in Orders(args) :
            /\ pr_result' = [op |-> "render", name |-> name, args |-> args,
                             out |-> render(prompts, name, args, varder, order)]
            /\ UNCHANGED prompts

InitPrompt ==
    /\ IdlePrompts
    /\ IdleBreaker
    /\ InitCallers
    /\ IdleErrorTracker
    /\ IdleRetry
    /\ IdleTimeout
    /\ IdleBackoff
    /\ IdleMiddleware
    /\ IdlePipeline
    /\ IdleInterpolate
    /\ IdleRegistry
    /\ IdleConfig
    /\ IdleCounter
    /\ IdleLock
    /\ IdleMetrics
    /\ IdleState
    /\ IdleResources

NextPrompt ==
    /\ prompt_register \/ prompt_render
    /\ UNCHANGED <<cbVars, retryVars, toVars, boVars, mwVars, plVars, ipVars, rgVars, cfVars, etVars, rsVars, stVars, tmVars, lkVars, ctVars>>

SpecPrompt == InitPrompt /\ [][NextPrompt]_vars

\* the last call was render on a registered prompt
Rendered == pr_result.op = "render" /\ contains_key(prompts, pr_result.name)

\* an argument is required when it is declared as a record with required =
\* true or as a bare primitive kind
DeclaredRequired(param_type) ==
    param_type.kind = "simple" \/ (param_type.kind = "complex" /\ param_type.required)

\* the arguments declared as records with required = true
RecordRequired(param_type) == param_type.kind = "complex" /\ param_type.required

\* a declared argument that satisfies Req is missing from the arguments of the
\* last render
Missing(Req(_)) ==
    \E a \in DOMAIN prompts[pr_result.name].arguments :
        Req(prompts[pr_result.name].arguments[a]) /\ a \notin DOMAIN pr_result.args

\* the failure names a required argument
IsRequiredArgumentFailure(out) ==
    /\ ~out.ok
    /\ out.kind = "Handler"
    /\ Len(out.msg) >= Len(<<"R", "e", "q", "u", "i", "r", "e", "d", " ", "a", "r", "g", "u", "m", "e", "n", "t">>)
    /\ SubSeq(out.msg, 1, Len(<<"R", "e", "q", "u", "i", "r", "e", "d", " ", "a", "r", "g", "u", "m", "e", "n", "t">>)) = <<"R", "e", "q", "u", "i", "r", "e", "d", " ", "a", "r", "g", "u", "m", "e", "n", "t">>

\* the names of the holes of the template
HoleNames(template) == {a \in ArgNames : Contains(template, Pattern(a))}

\* the arguments without those that the template does not use
Restrict(args, names) == [a \in DOMAIN args \cap names |-> args[a]]

\* no value of the arguments holds a hole
HoleFree(args) ==
    \A a \in DOMAIN args : args[a].t = "str" => ~Contains(args[a].s, <<"{", "{">>)

\* render returns the same as on the arguments that the template uses
ExtrasIgnored ==
    LET entry == prompts[pr_result.name]
        used == Restrict(pr_result.args, HoleNames(entry.template))
    IN \A order \in Orders(used) :
          pr_result.out = interpolate(entry.template, used, order)

\* C31: render fails with HandlerFailure("Required argument ...") whenever an
\* argument declared required (a record with required = true, or a bare
\* primitive kind) is missing from args; when every required argument is
\* present, the arguments that the template does not use are ignored.
C31_RequiredArgumentsEnforced ==
    Rendered =>
        /\ Missing(DeclaredRequired) => IsRequiredArgumentFailure(pr_result.out)
        /\ (~Missing(DeclaredRequired) /\ HoleFree(pr_result.args)) => ExtrasIgnored

\* C31 for the arguments declared as records: a missing argument with
\* required = true fails the render with "Required argument '<name>' not
\* provided", and with none missing the outcome is that of the interpolation
\* of the arguments that the template uses
C31_RecordRequiredEnforced ==
    Rendered =>
        /\ Missing(RecordRequired) =>
              /\ IsRequiredArgumentFailure(pr_result.out)
              /\ \E a \in DOMAIN prompts[pr_result.name].arguments :
                    /\ RecordRequired(prompts[pr_result.name].arguments[a])
                    /\ a \notin DOMAIN pr_result.args
                    /\ pr_result.out = ErrRequiredArgument(a)
        /\ (~Missing(RecordRequired) /\ HoleFree(pr_result.args)) => ExtrasIgnored

\* a render that fails on a missing record argument, and one that succeeds
\* with an argument that its template does not use
C31_RecordRequiredReached ==
    /\ Rendered
    /\ Missing(RecordRequired)
    /\ IsRequiredArgumentFailure(pr_result.out)

C31_ExtraIgnoredReached ==
    /\ Rendered
    /\ ~Missing(RecordRequired)
    /\ pr_result.out.ok
    /\ DOMAIN pr_result.args \ HoleNames(prompts[pr_result.name].template) # {}

\* the outcomes of the last render over every order of the two iterations
RenderOutcomes ==
    {render(prompts, pr_result.name, pr_result.args, varder, order) :
        varder \in Varders(prompts, pr_result.name), order \in Orders(pr_result.args)}

\* C40: render is deterministic: for a given template and argument map it
\* has one outcome, the same string or the same failure, whatever the order
\* in which the arguments are substituted, also when the value of an argument
\* holds a hole that names another argument.
C40_RenderDeterministic ==
    pr_result.op = "render" => RenderOutcomes = {pr_result.out}

\* at most one declared argument with required = true is missing
AtMostOneMissing ==
    \A a, b \in DOMAIN prompts[pr_result.name].arguments :
        (/\ RecordRequired(prompts[pr_result.name].arguments[a])
         /\ RecordRequired(prompts[pr_result.name].arguments[b])
         /\ a \notin DOMAIN pr_result.args
         /\ b \notin DOMAIN pr_result.args) => a = b

\* C40 for arguments whose values hold no hole and with at most one required
\* argument missing: one outcome whatever the orders
C40_HoleFreeDeterministic ==
    (Rendered /\ HoleFree(pr_result.args) /\ AtMostOneMissing) =>
        RenderOutcomes = {pr_result.out}

\* a render with two arguments, both substituted
C40_TwoArgumentsReached ==
    /\ Rendered
    /\ HoleFree(pr_result.args)
    /\ Cardinality(DOMAIN pr_result.args) = 2
    /\ pr_result.out = Ok(<<"A", " ", "3", "0">>)

\* the value of x holds the hole of y: the outcome depends on the order
C40_OrderDependentReached ==
    /\ Rendered
    /\ ~HoleFree(pr_result.args)
    /\ pr_result.out.ok
    /\ \E out \in RenderOutcomes : ~out.ok

(* ResourceManager: register, read, write and subscribe. *)
MaxResources == 2

ResourceOperation == {"read", "write", "subscribe"}

\* ResourceDef.uri_template
UriTemplates ==
    {<<"f", "/", "{", "p", "}">>, <<"f", "/", "{", "d", "}", "/", "{", "n", "}">>,
     <<"f", "/", "a">>, <<"f", "/", "{", "}">>}

\* the URIs read, written and subscribed to
Uris ==
    {<<"f", "/", "a">>, <<"f", "/", "b", "/", "c">>, <<"f", "/">>, <<"g">>}

\* ResourceDef.supports
SupportSets == {{}, {"read"}, {"write"}, {"read", "write"}, ResourceOperation}

ResourceDefs == [uri_template : UriTemplates, supports : SupportSets]

ErrEmptyParameter == Err("Handler", <<"E", "m", "p", "t", "y", " ", "p", "a", "r", "a", "m", "e", "t", "e", "r", " ", "n", "a", "m", "e", " ", "i", "n", " ", "U", "R", "I", " ", "t", "e", "m", "p", "l", "a", "t", "e">>)

ErrNoResource(uri) == Err("Handler", <<"N", "o", " ", "r", "e", "s", "o", "u", "r", "c", "e", " ", "m", "a", "t", "c", "h", "e", "s", " ", "U", "R", "I", ":", " ">> \o uri)

ErrSubscribeDefault == Err("Handler", <<"S", "u", "b", "s", "c", "r", "i", "b", "e", " ", "o", "p", "e", "r", "a", "t", "i", "o", "n", " ", "n", "o", "t", " ", "s", "u", "p", "p", "o", "r", "t", "e", "d">>)

\* the Display of a ResourceOperation in the messages
OperationText(op) ==
    CASE op = "read" -> <<"r", "e", "a", "d">>
      [] op = "write" -> <<"w", "r", "i", "t", "e">>
      [] op = "subscribe" -> <<"s", "u", "b", "s", "c", "r", "i", "b", "e">>

ErrNotSupported(uri_template, op) ==
    Err("Handler", <<"R", "e", "s", "o", "u", "r", "c", "e", " ">> \o uri_template \o <<" ", "d", "o", "e", "s", " ", "n", "o", "t", " ", "s", "u", "p", "p", "o", "r", "t", " ">> \o OperationText(op) \o <<" ", "o", "p", "e", "r", "a", "t", "i", "o", "n">>)

\* compile_uri_template: the characters of the parameter name that starts
\* at position i, up to the closing brace or the end of the template
RECURSIVE param_name(_, _)
param_name(template, i) ==
    IF i > Len(template) \/ template[i] = "}" THEN <<>>
    ELSE <<template[i]>> \o param_name(template, i + 1)

\* compile_uri_template, the loop from position i: the pattern as the
\* sequence of its parts, a literal character, ([^/]+) or (.+), and the
\* parameter names
RECURSIVE compile_from(_, _, _, _)
compile_from(template, i, pattern, param_names) ==
    IF i > Len(template) THEN Ok([pattern |-> pattern, param_names |-> param_names])
    ELSE IF template[i] = "{"
    THEN LET name == param_name(template, i + 1)
             closed == i + Len(name) + 1 <= Len(template)
             next == IF closed THEN i + Len(name) + 2 ELSE i + Len(name) + 1
         IN IF name = <<>> THEN ErrEmptyParameter
            ELSE compile_from(template, next,
                    Append(pattern,
                           IF next <= Len(template) /\ template[next] = "/"
                           THEN [part |-> "segment"] ELSE [part |-> "greedy"]),
                    Append(param_names, name))
    ELSE compile_from(template, i + 1, Append(pattern, [part |-> "char", ch |-> template[i]]),
                      param_names)

\* ResourceManager::compile_uri_template
compile_uri_template(template) == compile_from(template, 1, <<>>, <<>>)

\* the text matches the anchored pattern
RECURSIVE is_match(_, _)
is_match(pattern, text) ==
    IF pattern = <<>> THEN text = <<>>
    ELSE IF pattern[1].part = "char"
    THEN text # <<>> /\ text[1] = pattern[1].ch /\ is_match(Tail(pattern), Tail(text))
    ELSE \E k \in 1..Len(text) :
            /\ pattern[1].part = "segment" => \A j \in 1..k : text[j] # "/"
            /\ is_match(Tail(pattern), SubSeq(text, k + 1, Len(text)))

\* the groups of the match, each group as long as the rest allows
RECURSIVE groups(_, _)
groups(pattern, text) ==
    IF pattern = <<>> THEN <<>>
    ELSE IF pattern[1].part = "char" THEN groups(Tail(pattern), Tail(text))
    ELSE LET fits(k) ==
                /\ pattern[1].part = "segment" => \A j \in 1..k : text[j] # "/"
                /\ is_match(Tail(pattern), SubSeq(text, k + 1, Len(text)))
             k == CHOOSE n \in 1..Len(text) :
                    fits(n) /\ \A l \in 1..Len(text) : fits(l) => l <= n
         IN <<SubSeq(text, 1, k)>> \o groups(Tail(pattern), SubSeq(text, k + 1, Len(text)))

\* Regex::captures
captures(pattern, text) ==
    IF is_match(pattern, text) THEN Some(groups(pattern, text)) ELSE None

\* match_uri: the params of the entry, one insert per parameter name
RECURSIVE insert_params(_, _, _, _)
insert_params(param_names, caps, i, params) ==
    IF i > Len(param_names) THEN params
    ELSE insert_params(param_names, caps, i + 1, Insert(params, param_names[i], caps[i]))

\* a match_uri that takes the last entry that matches
RECURSIVE match_uri_last(_, _, _)
match_uri_last(entries, uri, i) ==
    IF i > Len(entries) THEN None
    ELSE IF match_uri_last(entries, uri, i + 1) # None
    THEN match_uri_last(entries, uri, i + 1)
    ELSE IF captures(entries[i].pattern, uri) # None
    THEN Some([entry |-> entries[i],
               params |-> insert_params(entries[i].param_names,
                                        captures(entries[i].pattern, uri)[1], 1, EmptyMap)])
    ELSE None

\* ResourceManager::match_uri: for entry in &self.resources, from entry i
RECURSIVE match_uri(_, _, _)
match_uri(entries, uri, i) ==
    IF i > Len(entries) THEN None
    ELSE IF captures(entries[i].pattern, uri) # None
    THEN Some([entry |-> entries[i],
               params |-> insert_params(entries[i].param_names,
                                        captures(entries[i].pattern, uri)[1], 1, EmptyMap)])
    ELSE match_uri(entries, uri, i + 1)

\* TestResourceHandler: read returns its response, write succeeds, subscribe
\* is the default of the trait
handler_call(h, op) ==
    CASE op = "read" -> Ok(<<"r", "e", "s", "p", "o", "n", "s", "e">> \o Digits(h))
      [] op = "write" -> Ok(Unit)
      [] op = "subscribe" -> ErrSubscribeDefault

\* ResourceManager::read, write, subscribe: the result and the handler calls
resource_call(entries, op, uri) ==
    LET found == match_uri(entries, uri, 1)
    IN IF found = None THEN [out |-> ErrNoResource(uri), invoked |-> <<>>]
       ELSE IF op \notin found[1].entry.supports
       THEN [out |-> ErrNotSupported(found[1].entry.uri_template, op), invoked |-> <<>>]
       ELSE [out |-> handler_call(found[1].entry.handler, op),
             invoked |-> <<[handler |-> found[1].entry.handler, op |-> op, uri |-> uri,
                            params |-> found[1].params]>>]

\* manager.register(def, handler): the handler is named by its place
rs_register ==
    /\ Len(resources) < MaxResources
    /\ \E def \in ResourceDefs :
         LET compiled == compile_uri_template(def.uri_template)
         IN IF ~compiled.ok
            THEN /\ rs_result' = [op |-> "register", uri |-> def.uri_template,
                                  out |-> compiled, invoked |-> <<>>]
                 /\ UNCHANGED resources
            ELSE /\ resources' = Append(resources,
                        [uri_template |-> def.uri_template,
                         pattern |-> compiled.value.pattern,
                         param_names |-> compiled.value.param_names,
                         supports |-> def.supports,
                         handler |-> Len(resources) + 1])
                 /\ rs_result' = [op |-> "register", uri |-> def.uri_template,
                                  out |-> Ok(Unit), invoked |-> <<>>]

\* manager.read(uri), manager.write(uri, content), manager.subscribe(uri)
rs_call ==
    \E op \in ResourceOperation, uri \in Uris :
        /\ rs_result' = [op |-> op, uri |-> uri,
                         out |-> resource_call(resources, op, uri).out,
                         invoked |-> resource_call(resources, op, uri).invoked]
        /\ UNCHANGED resources

InitResource ==
    /\ IdleResources
    /\ IdleBreaker
    /\ InitCallers
    /\ IdleErrorTracker
    /\ IdlePrompts
    /\ IdleRetry
    /\ IdleTimeout
    /\ IdleBackoff
    /\ IdleMiddleware
    /\ IdlePipeline
    /\ IdleInterpolate
    /\ IdleRegistry
    /\ IdleConfig
    /\ IdleCounter
    /\ IdleLock
    /\ IdleMetrics
    /\ IdleState

NextResource ==
    /\ rs_register \/ rs_call
    /\ UNCHANGED <<cbVars, retryVars, toVars, boVars, mwVars, plVars, ipVars, rgVars, cfVars, etVars, prVars, stVars, tmVars, lkVars, ctVars>>

SpecResource == InitResource /\ [][NextResource]_vars

\* the last call was a read, a write or a subscribe
ResourceCalled == rs_result.op \in ResourceOperation

\* the places of the registered resources whose template matches the URI
Matching(uri) == {i \in 1..Len(resources) : is_match(resources[i].pattern, uri)}

\* the failure says that the resource does not support the operation
IsNotSupported(out) ==
    /\ ~out.ok
    /\ out.kind = "Handler"
    /\ Contains(out.msg, <<"d", "o", "e", "s", " ", "n", "o", "t", " ", "s", "u", "p", "p", "o", "r", "t">>)

\* C32: read, write and subscribe select the first registered resource, in
\* registration order, whose template matches the URI; when it does not
\* support the operation the call fails with "... does not support ..." and no
\* handler is invoked, even when a later resource matches and supports it;
\* when no template matches the call fails, and no handler is invoked.
C32_FirstMatchWins ==
    ResourceCalled =>
        IF Matching(rs_result.uri) = {}
        THEN ~rs_result.out.ok /\ rs_result.invoked = <<>>
        ELSE LET first == CHOOSE i \in Matching(rs_result.uri) :
                              \A j \in Matching(rs_result.uri) : i <= j
             IN IF rs_result.op \in resources[first].supports
                THEN /\ Len(rs_result.invoked) = 1
                     /\ rs_result.invoked[1].handler = first
                     /\ rs_result.invoked[1].op = rs_result.op
                     /\ rs_result.out = handler_call(first, rs_result.op)
                ELSE /\ rs_result.out =
                            ErrNotSupported(resources[first].uri_template, rs_result.op)
                     /\ IsNotSupported(rs_result.out)
                     /\ rs_result.invoked = <<>>

\* a call refused on the first matching resource while the second one
\* matches too and supports the operation
C32_Witness ==
    /\ ResourceCalled
    /\ Matching(rs_result.uri) = {1, 2}
    /\ rs_result.op \notin resources[1].supports
    /\ rs_result.op \in resources[2].supports
    /\ IsNotSupported(rs_result.out)
    /\ rs_result.invoked = <<>>

\* a read served by the first of two matching resources
C32_FirstServes ==
    /\ rs_result.op = "read"
    /\ Matching(rs_result.uri) = {1, 2}
    /\ rs_result.out.ok
    /\ rs_result.invoked[1].handler = 1

(* StateManager: MemoryStateManager and SledStateManager. *)
Backends == {"memory", "sled"}

StateKeys == {"key1", "key2"}

StateValues == {"value1", "value2"}

\* the ttl passed to set: none, or a number of ticks
Ttls == {None} \cup {Some(d) : d \in 1..MaxTimeout}

\* HashMap::remove / DashMap::remove / sled::Db::remove
Remove(map, key) == [k \in DOMAIN map \ {key} |-> map[k]]

\* MemoryStateManager::set, SledStateManager::set: the store after the call
store_set(map, key, value, ttl) == Insert(map, key, value)

\* state.set(key, value, ttl)
state_set ==
    \E key \in StateKeys, value \in StateValues, ttl \in Ttls :
        /\ st_store' = store_set(st_store, key, value, ttl)
        /\ st_sets' = Insert(st_sets, key, [at |-> now, value |-> value, ttl |-> ttl])
        /\ st_result' = [op |-> "set", key |-> key, at |-> now, out |-> Ok(Unit)]
        /\ UNCHANGED backend

\* state.delete(key)
state_delete ==
    \E key \in StateKeys :
        /\ st_store' = Remove(st_store, key)
        /\ st_sets' = Remove(st_sets, key)
        /\ st_result' = [op |-> "delete", key |-> key, at |-> now, out |-> Ok(Unit)]
        /\ UNCHANGED backend

\* state.get(key)
state_get ==
    \E key \in StateKeys :
        /\ st_result' = [op |-> "get", key |-> key, at |-> now, out |-> Ok(get(st_store, key))]
        /\ UNCHANGED <<backend, st_store, st_sets>>

\* state.exists(key)
state_exists ==
    \E key \in StateKeys :
        /\ st_result' = [op |-> "exists", key |-> key, at |-> now,
                         out |-> Ok(contains_key(st_store, key))]
        /\ UNCHANGED <<backend, st_store, st_sets>>

\* MemoryStateManager::new or SledStateManager::new on an empty directory
InitState ==
    /\ backend \in Backends
    /\ st_store = EmptyMap
    /\ st_sets = EmptyMap
    /\ st_result = [op |-> "none"]
    /\ IdleBreaker
    /\ InitCallers
    /\ IdleErrorTracker
    /\ IdlePrompts
    /\ IdleResources
    /\ IdleRetry
    /\ IdleTimeout
    /\ IdleBackoff
    /\ IdleMiddleware
    /\ IdlePipeline
    /\ IdleInterpolate
    /\ IdleRegistry
    /\ IdleConfig
    /\ IdleCounter
    /\ IdleLock
    /\ IdleMetrics

NextState ==
    /\ \/ Tick /\ UNCHANGED <<started, stVars>>
       \/ (state_set \/ state_delete \/ state_get \/ state_exists) /\ UNCHANGED cbVars
    /\ UNCHANGED <<retryVars, toVars, boVars, mwVars, plVars, ipVars, rgVars, cfVars, etVars, prVars, rsVars, tmVars, lkVars, ctVars>>

SpecState == InitState /\ [][NextState]_vars

\* the last call read key: a get or an exists
StateRead == st_result.op \in {"get", "exists"}

\* the key of the last read was set with a ttl that had elapsed at the read
Expired ==
    /\ contains_key(st_sets, st_result.key)
    /\ st_sets[st_result.key].ttl # None
    /\ st_result.at - st_sets[st_result.key].at >= st_sets[st_result.key].ttl[1]

\* the read found nothing under the key
Absent == st_result.out = (IF st_result.op = "get" THEN Ok(None) ELSE Ok(FALSE))

\* C33: a key set with a ttl is no longer returned by get nor reported by
\* exists once the ttl has elapsed since the set, in the memory store and in
\* the sled store; a key set without ttl is readable until it is overwritten
\* or deleted.
C33_ExpiredNotReturned ==
    StateRead =>
        /\ Expired => Absent
        /\ (contains_key(st_sets, st_result.key) /\ st_sets[st_result.key].ttl = None) =>
              st_result.out = (IF st_result.op = "get"
                               THEN Ok(Some(st_sets[st_result.key].value)) ELSE Ok(TRUE))

\* C33 without the expiry: a read returns the value of the last set of the
\* key, whatever its ttl and the time, and nothing for a key never set or
\* deleted since
C33_LastSetReadable ==
    StateRead =>
        IF contains_key(st_sets, st_result.key)
        THEN st_result.out = (IF st_result.op = "get"
                              THEN Ok(Some(st_sets[st_result.key].value)) ELSE Ok(TRUE))
        ELSE Absent

\* a get after the ttl of the key has elapsed, in the sled store
C33_ExpiredReadReached ==
    /\ backend = "sled"
    /\ st_result.op = "get"
    /\ Expired
    /\ st_result.out.value # None

(* MetricsCollector: record_request and the getters. *)
\* the tasks that call record_request
Recorders == 1..NumRecorders

\* the task that reads the collector
Reader == 0

MetricTools == {"greet", "other"}

\* the latencies passed to record_request, in nanoseconds: 100 us and 1.5 us
Latencies == {100000, 1500}

\* Duration::as_micros() as u64
as_micros(latency) == latency \div 1000

\* map.entry(tool).or_insert_with(|| AtomicU64::new(0)).fetch_add(n)
fetch_add(map, tool, n) ==
    Insert(map, tool, (IF contains_key(map, tool) THEN map[tool] ELSE 0) + n)

\* map.get(tool).map(|v| v.load(Ordering::Relaxed)).unwrap_or(0)
load_or_zero(map, tool) == IF contains_key(map, tool) THEN map[tool] ELSE 0

\* total as f64 / count as f64: the quotient as the pair of its terms
Quotient(a, b) == [num |-> a, den |-> b]

\* MetricsCollector::get_request_count
get_request_count(tool) == load_or_zero(request_counts, tool)

\* MetricsCollector::get_error_count
get_error_count(tool) == load_or_zero(error_counts, tool)

\* MetricsCollector::get_avg_latency_micros
get_avg_latency_micros(tool) ==
    IF get_request_count(tool) = 0 THEN None
    ELSE Some(Quotient(load_or_zero(latency_sums, tool), get_request_count(tool)))

\* MetricsCollector::get_error_rate
get_error_rate(tool) ==
    IF get_request_count(tool) = 0 THEN Quotient(0, 1)
    ELSE Quotient(get_error_count(tool), get_request_count(tool))

\* a collector that counts every request as an error
counts_error_always(success) == TRUE

\* record_request: if !success
counts_error(success) == ~success

\* collector.record_request(tool, latency, success), by one task alone
metrics_record_request ==
    /\ Len(tm_log) < MaxRecords
    /\ \E tool \in MetricTools, latency \in Latencies, success \in BOOLEAN :
         /\ request_counts' = fetch_add(request_counts, tool, 1)
         /\ latency_sums' = fetch_add(latency_sums, tool, as_micros(latency))
         /\ error_counts' = IF counts_error(success)
                            THEN fetch_add(error_counts, tool, 1) ELSE error_counts
         /\ tm_log' = Append(tm_log, [tool |-> tool, latency |-> latency, success |-> success])
    /\ UNCHANGED <<tm_pc, tm_loc, tm_out>>

\* the getters of the collector, by the task that records, after the calls
\* of the log so far
metrics_read ==
    /\ \E tool \in MetricTools :
         tm_out' = [op |-> "read", tool |-> tool, at |-> Len(tm_log),
                    count |-> get_request_count(tool),
                    errors |-> get_error_count(tool),
                    avg |-> get_avg_latency_micros(tool),
                    rate |-> get_error_rate(tool)]
    /\ UNCHANGED <<request_counts, error_counts, latency_sums, tm_log, tm_pc, tm_loc>>

InitMetrics ==
    /\ IdleMetrics
    /\ IdleBreaker
    /\ InitCallers
    /\ IdleErrorTracker
    /\ IdlePrompts
    /\ IdleResources
    /\ IdleState
    /\ IdleRetry
    /\ IdleTimeout
    /\ IdleBackoff
    /\ IdleMiddleware
    /\ IdlePipeline
    /\ IdleInterpolate
    /\ IdleRegistry
    /\ IdleConfig
    /\ IdleCounter
    /\ IdleLock

NextMetrics ==
    /\ metrics_record_request \/ metrics_read
    /\ UNCHANGED <<cbVars, retryVars, toVars, boVars, mwVars, plVars, ipVars, rgVars, cfVars, etVars, prVars, rsVars, stVars, lkVars, ctVars>>

SpecMetrics == InitMetrics /\ [][NextMetrics]_vars

\* record_request by task p: the fetch_add on request_counts
record_count(p) ==
    /\ tm_pc[p] = "idle"
    /\ Len(tm_log) < MaxRecords
    /\ \E tool \in MetricTools, latency \in Latencies, success \in BOOLEAN :
         /\ request_counts' = fetch_add(request_counts, tool, 1)
         /\ tm_loc' = [tm_loc EXCEPT ![p] = [tool |-> tool, success |-> success,
                                            micros |-> as_micros(latency), total |-> 0]]
         /\ tm_log' = Append(tm_log, [tool |-> tool, latency |-> latency, success |-> success])
    /\ tm_pc' = [tm_pc EXCEPT ![p] = "latency"]
    /\ UNCHANGED <<error_counts, latency_sums, tm_out>>

\* record_request by task p: the fetch_add on latency_sums
record_latency(p) ==
    /\ tm_pc[p] = "latency"
    /\ latency_sums' = fetch_add(latency_sums, tm_loc[p].tool, tm_loc[p].micros)
    /\ tm_pc' = [tm_pc EXCEPT ![p] = IF counts_error(tm_loc[p].success) THEN "error" ELSE "idle"]
    /\ UNCHANGED <<request_counts, error_counts, tm_log, tm_loc, tm_out>>

\* record_request by task p: the fetch_add on error_counts
record_error(p) ==
    /\ tm_pc[p] = "error"
    /\ error_counts' = fetch_add(error_counts, tm_loc[p].tool, 1)
    /\ tm_pc' = [tm_pc EXCEPT ![p] = "idle"]
    /\ UNCHANGED <<request_counts, latency_sums, tm_log, tm_loc, tm_out>>

\* get_error_rate by the reader: let total = self.get_request_count(tool)
rate_total ==
    /\ tm_pc[Reader] = "idle"
    /\ \E tool \in MetricTools :
         IF get_request_count(tool) = 0
         THEN /\ tm_out' = [op |-> "rate", tool |-> tool, total |-> 0, errors |-> 0,
                            rate |-> Quotient(0, 1)]
              /\ UNCHANGED <<tm_pc, tm_loc>>
         ELSE /\ tm_loc' = [tm_loc EXCEPT ![Reader].tool = tool,
                                          ![Reader].total = get_request_count(tool)]
              /\ tm_pc' = [tm_pc EXCEPT ![Reader] = "errors"]
              /\ UNCHANGED tm_out
    /\ UNCHANGED <<request_counts, error_counts, latency_sums, tm_log>>

\* get_error_rate by the reader: let errors = self.get_error_count(tool) and
\* the quotient
rate_errors ==
    /\ tm_pc[Reader] = "errors"
    /\ tm_out' = [op |-> "rate", tool |-> tm_loc[Reader].tool,
                  total |-> tm_loc[Reader].total,
                  errors |-> get_error_count(tm_loc[Reader].tool),
                  rate |-> Quotient(get_error_count(tm_loc[Reader].tool),
                                    tm_loc[Reader].total)]
    /\ tm_pc' = [tm_pc EXCEPT ![Reader] = "idle"]
    /\ UNCHANGED <<request_counts, error_counts, latency_sums, tm_log, tm_loc>>

\* tasks that record while another one reads the error rate
NextMetricsConc ==
    /\ \/ \E p \in Recorders : record_count(p) \/ record_latency(p) \/ record_error(p)
       \/ rate_total
       \/ rate_errors
    /\ UNCHANGED <<cbVars, retryVars, toVars, boVars, mwVars, plVars, ipVars, rgVars, cfVars, etVars, prVars, rsVars, stVars, lkVars, ctVars>>

SpecMetricsConc == InitMetrics /\ [][NextMetricsConc]_vars

\* the calls of the log made for the tool
RECURSIVE CallsFor(_, _)
CallsFor(calls, tool) ==
    IF calls = <<>> THEN <<>>
    ELSE IF calls[1].tool = tool THEN <<calls[1]>> \o CallsFor(Tail(calls), tool)
    ELSE CallsFor(Tail(calls), tool)

\* the number of failed calls among calls
RECURSIVE Failures(_)
Failures(calls) ==
    IF calls = <<>> THEN 0
    ELSE (IF calls[1].success THEN 0 ELSE 1) + Failures(Tail(calls))

\* the sum of the durations of calls, in microseconds
RECURSIVE MicrosSum(_)
MicrosSum(calls) ==
    IF calls = <<>> THEN 0 ELSE (calls[1].latency \div 1000) + MicrosSum(Tail(calls))

\* the quotient q is the number a / b
IsQuotient(q, a, b) == q.num * b = a * q.den /\ q.den # 0

\* C34: for every tool, after any sequence of record_request calls, count is
\* the number of calls made for the tool, errors the number of those with
\* success = false and the latency sum the sum of their durations in
\* microseconds; error_rate = errors / count and avg_latency = sum / count;
\* after the single call record_request(t, 100 us, true) avg_latency is 100
\* and error_rate 0; the calls for one tool leave the counters of another
\* tool alone.
C34_CountersExact ==
    /\ \A tool \in MetricTools :
         LET calls == CallsFor(tm_log, tool)
         IN /\ get_request_count(tool) = Len(calls)
            /\ get_error_count(tool) = Failures(calls)
            /\ load_or_zero(latency_sums, tool) = MicrosSum(calls)
            /\ calls # <<>> =>
                 /\ IsQuotient(get_error_rate(tool), Failures(calls), Len(calls))
                 /\ get_avg_latency_micros(tool) # None
                 /\ IsQuotient(get_avg_latency_micros(tool)[1], MicrosSum(calls), Len(calls))
            /\ calls = <<>> =>
                 /\ get_avg_latency_micros(tool) = None
                 /\ IsQuotient(get_error_rate(tool), 0, 1)
    /\ tm_out.op = "read" =>
         LET calls == CallsFor(SubSeq(tm_log, 1, tm_out.at), tm_out.tool)
         IN /\ tm_out.count = Len(calls)
            /\ tm_out.errors = Failures(calls)
            /\ IF calls = <<>>
               THEN tm_out.avg = None /\ IsQuotient(tm_out.rate, 0, 1)
               ELSE /\ tm_out.avg # None
                    /\ IsQuotient(tm_out.avg[1], MicrosSum(calls), Len(calls))
                    /\ IsQuotient(tm_out.rate, Failures(calls), Len(calls))
    /\ tm_log = <<[tool |-> "greet", latency |-> 100000, success |-> TRUE]>> =>
         /\ IsQuotient(get_avg_latency_micros("greet")[1], 100, 1)
         /\ IsQuotient(get_error_rate("greet"), 0, 1)

\* two calls for greet, one failed, and one for the other tool, then the
\* getters on greet: count 2, errors 1, rate 1/2
C34_Witness ==
    /\ Len(CallsFor(tm_log, "greet")) = 2
    /\ Len(CallsFor(tm_log, "other")) = 1
    /\ tm_out.op = "read"
    /\ tm_out.tool = "greet"
    /\ tm_out.count = 2
    /\ tm_out.errors = 1
    /\ IsQuotient(tm_out.rate, 1, 2)

\* C37: whatever the interleaving of concurrent record_request calls with a
\* reader, the reader observes errors <= count for the tool, so that the
\* error rate that get_error_rate returns lies within [0, 1].
C37_ErrorRateWithinUnit ==
    tm_out.op = "rate" =>
        /\ tm_out.errors <= IF tm_out.total = 0 THEN 0 ELSE tm_out.total
        /\ 0 <= tm_out.rate.num
        /\ tm_out.rate.num <= tm_out.rate.den

\* C37, the counters themselves: in every state errors <= count for every
\* tool, and once the calls made have returned no increment is lost
C37_NoIncrementLost ==
    \A tool \in MetricTools :
        /\ get_error_count(tool) <= get_request_count(tool)
        /\ get_request_count(tool) = Len(CallsFor(tm_log, tool))
        /\ (\A p \in Recorders : tm_pc[p] = "idle") =>
              /\ get_error_count(tool) = Failures(CallsFor(tm_log, tool))
              /\ load_or_zero(latency_sums, tool) = MicrosSum(CallsFor(tm_log, tool))

\* two concurrent calls for one tool have returned and a rate was read
C37_ConcurrentReached ==
    /\ \A p \in Recorders : tm_pc[p] = "idle"
    /\ get_request_count("greet") = 2
    /\ get_error_count("greet") = 1
    /\ tm_out.op = "rate"
    /\ tm_out.tool = "greet"
    /\ tm_out.total = 1

(* McpServer: register_handlers and the dispatchers on the shared registry. *)
\* the tasks that dispatch through server.registry()
Dispatchers == 1..NumDispatchers

\* the tools of the manifests registered under the lock
LockTools ==
    {Cli(<<"a">>), Http(<<"d", "u", "p">>), Cli(<<"d", "u", "p">>),
     Native(<<"B">>, <<"m", ":", ":", "f">>)}

LockConfigs == UNION {[1..n -> LockTools] : n \in 0..MaxTools}

\* a lock that lets readers in while the writer holds it
read_available_always(l) == TRUE

\* RwLock::read: granted when no writer holds the lock
read_available(l) == ~l.writer

\* RwLock::write: granted when nobody holds the lock
write_available(l) == ~l.writer /\ l.readers = {}

\* register_handlers: the arm of the match for one tool
register_tool(registry, tool) ==
    CASE tool.type = "cli" -> Insert(registry, tool.name, HandlerEntryImpl("CliHandler"))
      [] tool.type = "http" -> Insert(registry, tool.name, HandlerEntryImpl("HttpHandler"))
      [] OTHER -> registry

\* register_handlers: let mut registry = self.registry.write().await
reg_lock ==
    /\ reg_pc = "start"
    /\ write_available(lock)
    /\ lock' = [lock EXCEPT !.writer = TRUE]
    /\ reg_pc' = "loop"
    /\ reg_i' = 1
    /\ UNCHANGED <<handlers, dp_pc, dp_seen>>

\* register_handlers: one iteration of for tool in &self.config.tools
reg_tool ==
    /\ reg_pc = "loop"
    /\ reg_i <= Len(server_config)
    /\ handlers' = register_tool(handlers, server_config[reg_i])
    /\ reg_i' = reg_i + 1
    /\ UNCHANGED <<lock, reg_pc, dp_pc, dp_seen>>

\* register_handlers: Ok(()) and the drop of the write guard
reg_unlock ==
    /\ reg_pc = "loop"
    /\ reg_i > Len(server_config)
    /\ lock' = [lock EXCEPT !.writer = FALSE]
    /\ reg_pc' = "done"
    /\ UNCHANGED <<handlers, reg_i, dp_pc, dp_seen>>

\* a dispatcher: server.registry().read().await
dp_lock(d) ==
    /\ dp_pc[d] = "idle"
    /\ read_available(lock)
    /\ lock' = [lock EXCEPT !.readers = @ \cup {d}]
    /\ dp_pc' = [dp_pc EXCEPT ![d] = "reading"]
    /\ UNCHANGED <<handlers, reg_pc, reg_i, dp_seen>>

\* a dispatcher: the lookups under its read guard; registering tells
\* whether register_handlers was inside its loop
dp_lookup(d) ==
    /\ dp_pc[d] = "reading"
    /\ dp_seen' = [dp_seen EXCEPT ![d] =
                     [op |-> "lookup", names |-> DOMAIN handlers,
                      registering |-> reg_pc = "loop"]]
    /\ dp_pc' = [dp_pc EXCEPT ![d] = "unlock"]
    /\ UNCHANGED <<handlers, lock, reg_pc, reg_i>>

\* a dispatcher: the drop of its read guard
dp_unlock(d) ==
    /\ dp_pc[d] = "unlock"
    /\ lock' = [lock EXCEPT !.readers = @ \ {d}]
    /\ dp_pc' = [dp_pc EXCEPT ![d] = "idle"]
    /\ UNCHANGED <<handlers, reg_pc, reg_i, dp_seen>>

\* McpServer::new(config)
InitLock ==
    /\ IdleLock
    /\ server_config \in LockConfigs
    /\ vresult = NotValidated
    /\ spc = "new"
    /\ IdleRegistry
    /\ IdleBreaker
    /\ InitCallers
    /\ IdleErrorTracker
    /\ IdlePrompts
    /\ IdleResources
    /\ IdleState
    /\ IdleMetrics
    /\ IdleCounter
    /\ IdleRetry
    /\ IdleTimeout
    /\ IdleBackoff
    /\ IdleMiddleware
    /\ IdlePipeline
    /\ IdleInterpolate

\* register_handlers once, with dispatchers at any time
NextLock ==
    /\ \/ reg_lock
       \/ reg_tool
       \/ reg_unlock
       \/ \E d \in Dispatchers : dp_lock(d) \/ dp_lookup(d) \/ dp_unlock(d)
    /\ UNCHANGED <<server_config, vresult, spc, rg_log>>
    /\ UNCHANGED <<cbVars, retryVars, toVars, boVars, mwVars, plVars, ipVars, etVars, prVars, rsVars, stVars, tmVars, ctVars>>

SpecLock == InitLock /\ [][NextLock]_vars

\* the names of the subprocess and HTTP tools of the manifest
SubprocessAndHttpNames ==
    {server_config[i].name : i \in {j \in 1..Len(server_config) :
                                       server_config[j].type \in {"cli", "http"}}}

\* C38: register_handlers holds the write lock of the registry for its whole
\* pass over the manifest: a dispatcher, which takes the read lock, finds
\* either none or all of the subprocess and HTTP tools of the manifest, and
\* no dispatcher looks up while a registration is in progress.
C38_RegistrationAtomic ==
    /\ \A d \in Dispatchers :
         dp_seen[d].op = "lookup" =>
            /\ dp_seen[d].names \in {{}, SubprocessAndHttpNames}
            /\ ~dp_seen[d].registering
    /\ reg_pc = "loop" =>
         /\ lock.writer
         /\ \A d \in Dispatchers : dp_pc[d] = "idle"
    /\ lock.writer => lock.readers = {}

\* a registry filled in part, inside the loop of register_handlers, after a
\* dispatcher found it empty
C38_Witness ==
    /\ reg_pc = "loop"
    /\ Cardinality(SubprocessAndHttpNames) = 2
    /\ Cardinality(DOMAIN handlers) = 1
    /\ dp_seen[1].op = "lookup"
    /\ dp_seen[1].names = {}

\* two dispatchers inside the registry at once, both finding the two tools
C38_AllSeen ==
    /\ reg_pc = "done"
    /\ Cardinality(SubprocessAndHttpNames) = 2
    /\ lock.readers = Dispatchers
    /\ \A d \in Dispatchers :
          dp_seen[d].op = "lookup" /\ dp_seen[d].names = SubprocessAndHttpNames

(* CounterHandler of the production server, on a shared MemoryStateManager. *)
\* the tasks that invoke counter_increment
CounterTasks == 1..NumCounterTasks

\* CounterInput.name
CounterNames == {"test", "persistent"}

\* CounterInput.increment
Increments == {5, 10, -3}

\* i64::to_string
i64_to_string(n) == IF n < 0 THEN <<"-">> \o Digits(0 - n) ELSE Digits(n)

\* str::parse::<i64>().unwrap_or(0) of the stored bytes
parse_i64_or_zero(bytes) ==
    LET digits == IF bytes # <<>> /\ bytes[1] \in {"-", "+"} THEN Tail(bytes) ELSE bytes
    IN IF digits = <<>> \/ \E i \in 1..Len(digits) : digits[i] \notin DigitChars THEN 0
       ELSE IF bytes[1] = "-" THEN 0 - ParseNat(digits) ELSE ParseNat(digits)

\* handle: let previous_value = match self.state.get(&input.name).await
previous_value_of(map, name) ==
    IF get(map, name) # None THEN parse_i64_or_zero(get(map, name)[1]) ELSE 0

\* handle by task p: the input and the get of the current value
counter_get(p) ==
    /\ ct_pc[p] = "idle"
    /\ ct_started < MaxInvocations
    /\ ct_started' = ct_started + 1
    /\ \E name \in CounterNames, increment \in Increments :
         /\ ct_loc' = [ct_loc EXCEPT ![p] =
                         [name |-> name, increment |-> increment,
                          previous_value |-> previous_value_of(st_store, name)]]
         /\ ct_overlap' = (ct_overlap \/ \E q \in CounterTasks \ {p} :
                                            ct_pc[q] = "set" /\ ct_loc[q].name = name)
    /\ ct_pc' = [ct_pc EXCEPT ![p] = "set"]
    /\ UNCHANGED <<st_store, st_sets, ct_outputs>>

\* handle by task p: new_value, the set of the new value and the output
counter_set(p) ==
    /\ ct_pc[p] = "set"
    /\ LET new_value == ct_loc[p].previous_value + ct_loc[p].increment
       IN /\ st_store' = store_set(st_store, ct_loc[p].name, i64_to_string(new_value), None)
          /\ st_sets' = Insert(st_sets, ct_loc[p].name,
                               [at |-> now, value |-> i64_to_string(new_value), ttl |-> None])
          /\ ct_outputs' = Append(ct_outputs,
                                  [name |-> ct_loc[p].name, value |-> new_value,
                                   previous_value |-> ct_loc[p].previous_value,
                                   increment |-> ct_loc[p].increment])
    /\ ct_pc' = [ct_pc EXCEPT ![p] = "idle"]
    /\ UNCHANGED <<ct_loc, ct_started, ct_overlap>>

\* CounterHandler::new(Arc::new(MemoryStateManager::new()))
InitCounter ==
    /\ IdleCounter
    /\ IdleBreaker
    /\ InitCallers
    /\ IdleErrorTracker
    /\ IdlePrompts
    /\ IdleResources
    /\ IdleState
    /\ IdleMetrics
    /\ IdleLock
    /\ IdleRetry
    /\ IdleTimeout
    /\ IdleBackoff
    /\ IdleMiddleware
    /\ IdlePipeline
    /\ IdleInterpolate
    /\ IdleRegistry
    /\ IdleConfig

\* invocations of the handler by concurrent tasks
NextCounter ==
    /\ \E p \in CounterTasks : counter_get(p) \/ counter_set(p)
    /\ UNCHANGED <<backend, st_result>>
    /\ UNCHANGED <<cbVars, retryVars, toVars, boVars, mwVars, plVars, ipVars, rgVars, cfVars, etVars, prVars, rsVars, tmVars, lkVars>>

SpecCounter == InitCounter /\ [][NextCounter]_vars

\* the sum of the increments of the outputs for the counter
RECURSIVE IncrementSum(_, _)
IncrementSum(outputs, name) ==
    IF outputs = <<>> THEN 0
    ELSE (IF outputs[1].name = name THEN outputs[1].increment ELSE 0)
            + IncrementSum(Tail(outputs), name)

\* every invocation started has returned
CounterAtRest == \A p \in CounterTasks : ct_pc[p] = "idle"

\* each output adds its increment to a previous value that is 0 or the value
\* of another output for the same counter
OutputsAdd ==
    \A i \in 1..Len(ct_outputs) :
        /\ ct_outputs[i].value = ct_outputs[i].previous_value + ct_outputs[i].increment
        /\ \/ ct_outputs[i].previous_value = 0
           \/ \E j \in 1..Len(ct_outputs) :
                 /\ j # i
                 /\ ct_outputs[j].name = ct_outputs[i].name
                 /\ ct_outputs[j].value = ct_outputs[i].previous_value

\* C39: after any set of invocations on one counter name over a shared
\* store, concurrent ones included, the stored value is the sum of all the
\* increments, each reported value is its previous_value plus its increment,
\* and the previous_value is 0 or the value left by another invocation.
C39_CounterAccumulates ==
    /\ OutputsAdd
    /\ CounterAtRest =>
         \A name \in CounterNames :
            previous_value_of(st_store, name) = IncrementSum(ct_outputs, name)

\* C39 for invocations that follow one another on each counter: the stored
\* value is the sum of the increments
C39_SequentialAccumulates ==
    /\ OutputsAdd
    /\ (CounterAtRest /\ ~ct_overlap) =>
         \A name \in CounterNames :
            previous_value_of(st_store, name) = IncrementSum(ct_outputs, name)

\* 10 then 5 on one counter: value 15 with previous_value 10
C39_PersistenceReached ==
    /\ ~ct_overlap
    /\ Len(ct_outputs) = 2
    /\ ct_outputs[1] = [name |-> "persistent", value |-> 10, previous_value |-> 0,
                        increment |-> 10]
    /\ ct_outputs[2] = [name |-> "persistent", value |-> 15, previous_value |-> 10,
                        increment |-> 5]
    /\ st_store["persistent"] = <<"1", "5">>

\* two invocations that both read 0: one increment is lost
C39_LostUpdateReached ==
    /\ CounterAtRest
    /\ Len(ct_outputs) = 2
    /\ \A i \in 1..2 : ct_outputs[i].name = "test" /\ ct_outputs[i].previous_value = 0
    /\ previous_value_of(st_store, "test") # IncrementSum(ct_outputs, "test")

====
